---- MODULE Spec2Model ----
(***************************************************************************)
(* Order service / catalog service / event bus of                          *)
(* rust-simple-event-driven-microservices.                                 *)
(*                                                                         *)
(* place_order (order_service.rs) is modelled step by step: the stock      *)
(* query over HTTP, the check, the order-store mutex, the two statements   *)
(* of add_order, the publish and the return.  The broker keeps one FIFO    *)
(* per partition key; the listener pump (listeners.rs) moves messages      *)
(* from the broker to the broadcast channel; the catalog callback          *)
(* (catalog_service.rs) applies them to the stock store.  A second part    *)
(* models KafkaListener<T> on its own: any buffer size, any number of      *)
(* receivers, and every kind of result the broker consumer can return.     *)
(***************************************************************************)
EXTENDS Integers, Sequences, FiniteSets, TLC

\* ------------------------------------------------------------------ bounds
\* number of place_order calls of one run
NumCalls == 2
\* number of HTTP worker threads of the order service (one cooperative
\* runtime each)
NumWorkers == 2
\* number of receivers taken from one listener by get_receiver
NumReceivers == 2
\* number of messages the broker hands to the consumer of one listener
MaxDeliveries == 3
\* largest buffer_size a listener is created with
MaxBufferSize == 3
\* number of envelopes built by Event::new on their own
MaxBuilt == 2
\* number of catalog requests (get_stock, get_items) served at the same time
NumReaders == 2

\* ------------------------------------------------------- program constants
\* buffer_size handed to KafkaListener::new by create_event_listener
BufferSize == 100

Calls == 1..NumCalls
Workers == 1..NumWorkers
Receivers == 1..NumReceivers
BufferSizes == 1..MaxBufferSize
Readers == 1..NumReaders

\* ids of the items CatalogDbClient::new() puts in the store
CatalogItemIds == {1, 2, 3, 4, 5}
\* stock of each item after CatalogDbClient::new()
InitialStock(id) == CASE id = 1 -> 100
                      [] id = 2 -> 50
                      [] id = 3 -> 30
                      [] id = 4 -> 75
                      [] id = 5 -> 1
\* name of each item after CatalogDbClient::new()
InitialName(id) == CASE id = 1 -> "T-Shirt"
                     [] id = 2 -> "Jeans"
                     [] id = 3 -> "Jacket"
                     [] id = 4 -> "Sneakers"
                     [] id = 5 -> "Cap"

\* ---------------------------------------------------------- request inputs
\* item ids a request or an event may name: two catalog items and one
\* unknown id
RequestItemIds == {1, 5, 999}
\* OrderRequest (model/mod.rs)
Request(item_id, name, address, quantity) ==
    [item_id |-> item_id, name |-> name, address |-> address,
     quantity |-> quantity]
\* the requests a call may carry: nothing and 60 of the item stocked 100,
\* exactly the stock and far more than the stock of the item stocked 1, and
\* an item the catalog does not know
OrderRequests ==
    {Request(1, "James", "23 Bugs Bunny Street", 0),
     Request(1, "something", "hello", 60),
     Request(5, "James", "hello", 1),
     Request(5, "something", "23 Bugs Bunny Street", 60),
     Request(999, "James", "23 Bugs Bunny Street", 1)}
NoRequest == [item_id |-> 0, name |-> "", address |-> "", quantity |-> 0]

VARIABLES
    pc,               \* position of each place_order call
    req,              \* order_request of each call
    worker,           \* worker thread each call runs on (0: not started)
    resp,             \* result of catalog_network_service.get_stock
    result,           \* value returned by place_order
    thread,           \* the call occupying each worker thread (0: free)
    mutex,            \* holder of OrderService.db (0: free)
    latest_order_id,  \* OrderDbClient.latest_order_id
    orders,           \* OrderDbClient.orders
    commitLog,        \* history: inserts into orders, in order
    pubOutcome,       \* history: outcome of each call's broadcast_event
    sendAttempts,     \* history: producer.send calls of each call's broadcast_event
    wire,             \* broker: one FIFO of messages per partition key
    pumpAlive,        \* the pump task of KafkaListener::new is running
    rxAlive,          \* the catalog callback still owns its receiver
    chan,             \* broadcast channel: messages the receiver has not read
    lagged,           \* the receiver fell behind by more than the capacity
    items,            \* CatalogDbClient.items
    handled,          \* history: events handled by the catalog callback
    \* a KafkaListener<T> of its own, with any number of receivers
    chanCapacity,     \* capacity of its broadcast channel (0: not created)
    consumerIn,       \* results consumer.recv() is going to return, in order
    pumpState,        \* "none", "running", "panicked" or "stopped"
    receivers,        \* the receivers that exist (subscribed, not dropped)
    unread,           \* per receiver: values broadcast to it and not yet read
    missed,           \* per receiver: values it lost since its last recv
    subscribedAt,     \* per receiver: Len(sentLog) at get_receiver (-1: never)
    received,         \* history, per receiver: results of its recv calls
    sentLog,          \* history: values tx_clone.send accepted, in order
    consumed,         \* history: what the pump consumed, with the outcome
    \* calls made outside the order flow
    catalogReply,     \* what get_items returned last (called: it was called)
    consumerCreated,  \* result of create_consumer ("none": not called yet)
    built,            \* history: the envelopes Event::new built, with its inputs
    storeCall,        \* the last call that wrote to the catalog store
    \* the RwLock around the catalog store, taken step by step
    rwWriter,         \* the callback holds the guard of db.write()
    rwReaders,        \* the requests that hold a guard of db.read()
    cbPc,             \* position of the callback: "recv", "lock", "check", "write"
    cbEvent,          \* the event the callback is handling (<<>>: none)
    stockAmount,     \* the callback's local copy of item.stock
    rdPc,             \* position of each catalog request: "idle", "lock", "inside"
    rdOp,             \* what each catalog request asks for
    rdResult          \* what each catalog request returned (none until it returns)

listenerVars == <<chanCapacity, consumerIn, pumpState, receivers, unread, missed,
                  subscribedAt, received, sentLog, consumed>>

lockVars == <<rwWriter, rwReaders, cbPc, cbEvent, stockAmount, rdPc, rdOp, rdResult>>

apiVars == <<catalogReply, consumerCreated, built, storeCall, lockVars>>

vars == <<pc, req, worker, resp, result, thread, mutex, latest_order_id,
          orders, commitLog, pubOutcome, sendAttempts, wire, pumpAlive, rxAlive,
          chan, lagged, items, handled, listenerVars, apiVars>>

publishVars == <<pubOutcome, sendAttempts>>

orderVars == <<latest_order_id, orders, commitLog>>
busVars == <<wire, pumpAlive, rxAlive, chan, lagged>>
catalogVars == <<items, handled>>

\* ------------------------------------------------------------ pure helpers
\* mutants: the operands of the subtraction swapped; the subtraction done as
\* an addition; the addition one too large
Sub32_Swapped(a, b) == b - a
Sub32_Add(a, b) == a + b
Add32_Skip(a, b) == a + b + 1

\* u32 arithmetic.  2^32 exceeds the integers of the model checker, so a
\* difference below zero, which the build either wraps to 2^32 + (a - b) or
\* turns into a panic, is kept as the negative number a - b: a value outside
\* 0 .. a either way.  Sums stay far below 2^32 within the bounds.
Add32(a, b) == a + b
Sub32(a, b) == a - b

\* item_id.to_string(): the partition key
KeyOf(item_id) == ToString(item_id)
Keys == {KeyOf(i) : i \in RequestItemIds}

\* mutant: an unknown item answered with a stock of 0
ServiceGetStock_DefaultZero(db, item_id) ==
    IF item_id \notin DOMAIN db
    THEN [ok |-> TRUE, stock |-> 0]
    ELSE [ok |-> TRUE, stock |-> db[item_id].stock]

\* CatalogService::get_stock: Ok(stock) or Err(ItemNotFoundError)
ServiceGetStock(db, item_id) ==
    IF item_id \notin DOMAIN db
    THEN [ok |-> FALSE, stock |-> 0]
    ELSE [ok |-> TRUE, stock |-> db[item_id].stock]

\* mutant: an unknown item answered with the text of a stock of 0
ApiGetStock_ZeroBody(db, item_id) ==
    LET r == ServiceGetStock(db, item_id)
    IN  IF ~r.ok THEN [status |-> 200, body |-> ToString(0)]
        ELSE [status |-> 200, body |-> ToString(r.stock)]

\* api::get_stock: the body of the 200 response, the stock rendered as text
\* or the 'does not exist' message
ApiGetStock(db, item_id) ==
    LET r == ServiceGetStock(db, item_id)
    IN  IF ~r.ok THEN [status |-> 200, body |-> "This item does not exist."]
        ELSE [status |-> 200, body |-> ToString(r.stock)]

\* response.json::<u32>(): the number a body of digits denotes, none otherwise
ParseU32(body) ==
    LET hits == {n \in {InitialStock(i) : i \in CatalogItemIds} \cup 0..100 :
                    ToString(n) = body}
    IN  IF hits = {} THEN [ok |-> FALSE, value |-> 0]
        ELSE [ok |-> TRUE, value |-> CHOOSE n \in hits : TRUE]

\* networking::execute_request on an answered request
ExecuteRequest(response) ==
    IF response.status \notin 200..299
    THEN [ok |-> FALSE, stock |-> 0, error |-> "Standard"]
    ELSE LET p == ParseU32(response.body)
         IN  IF p.ok THEN [ok |-> TRUE, stock |-> p.value, error |-> "none"]
             ELSE [ok |-> FALSE, stock |-> 0, error |-> "JsonError"]

NoResponse == [ok |-> FALSE, stock |-> 0, error |-> "pending"]

\* mutants of the test: the operands swapped; >= for >; the test left out
OutOfStock_Swapped(quantity, stock) == stock > quantity
OutOfStock_Strict(quantity, stock) == quantity >= stock
OutOfStock_Never(quantity, stock) == FALSE

\* the test of place_order: quantity > stock
OutOfStock(quantity, stock) == quantity > stock

\* mutant: the stock test left out of the decision
PlaceOrderDecision_NoCheck(response, quantity) ==
    IF ~response.ok THEN "CatalogNetworkError" ELSE "Proceed"

\* mutant: the failed query read as a stock of 0 (unwrap_or_default)
PlaceOrderDecision_ErrorAsZero(response, quantity) ==
    IF OutOfStock(quantity, response.stock) THEN "ItemOutOfStock" ELSE "Proceed"

\* place_order from the result of get_stock to the lock: the error of the
\* query is mapped to CatalogNetworkError and returned, then the stock test
PlaceOrderDecision(response, quantity) ==
    IF ~response.ok THEN "CatalogNetworkError"
    ELSE IF OutOfStock(quantity, response.stock) THEN "ItemOutOfStock"
    ELSE "Proceed"

\* mutant: the publish error handed on to the caller
ReturnAfterPublish_Propagate(outcome) ==
    IF outcome = "sent" THEN "Ok" ELSE "PublishError"

\* place_order after the publish: .map_err(log).ok() drops the outcome and
\* Ok(()) is returned
ReturnAfterPublish(outcome) == "Ok"

\* Order::new
NewOrder(order_id, order_request) ==
    [order_id |-> order_id, item_id |-> order_request.item_id,
     name |-> order_request.name, address |-> order_request.address]

\* OrderDbClient::get_order: Some(order) or None
GetOrder(map, order_id) ==
    IF order_id \in DOMAIN map
    THEN [some |-> TRUE, order |-> map[order_id]]
    ELSE [some |-> FALSE, order |-> NewOrder(0, NoRequest)]

\* mutant: the insert replaces the map by one that holds the new entry only
MapInsert_Clear(map, key, value) == [k \in {key} |-> value]

\* HashMap::insert
MapInsert(map, key, value) ==
    [k \in DOMAIN map \cup {key} |-> IF k = key THEN value ELSE map[k]]

\* mutant: the two fields of the payload filled the wrong way round
NewOrderPlacedEvent_Swapped(order_request) ==
    [item_id |-> order_request.quantity, quantity |-> order_request.item_id]

\* the OrderPlacedEvent place_order builds
NewOrderPlacedEvent(order_request) ==
    [item_id |-> order_request.item_id, quantity |-> order_request.quantity]

\* Event::new, the fields other than the timestamp, which no consumer reads
\* (NewEventAt is Event::new with it)
NewEvent(event_type, payload, source, correlation_id, metadata) ==
    [event_type |-> event_type, payload |-> payload, source |-> source,
     correlation_id |-> correlation_id, metadata |-> metadata]

\* mutants of the callback's test: the test left out; off by one
DecrementRejected_Never(quantity, stock_amount) == FALSE
DecrementRejected_OffByOne(quantity, stock_amount) == quantity > stock_amount + 1

\* the test of the catalog callback: event.payload.quantity > stock_amount
DecrementRejected(quantity, stock_amount) == quantity > stock_amount

\* ------------------------------------------------------------------- Init
Init ==
    /\ pc = [c \in Calls |-> "idle"]
    /\ req = [c \in Calls |-> NoRequest]
    /\ worker = [c \in Calls |-> 0]
    /\ resp = [c \in Calls |-> NoResponse]
    /\ result = [c \in Calls |-> "none"]
    /\ thread = [w \in Workers |-> 0]
    /\ mutex = 0
    /\ latest_order_id = 0
    /\ orders = <<>>
    /\ commitLog = <<>>
    /\ pubOutcome = [c \in Calls |-> "none"]
    /\ sendAttempts = [c \in Calls |-> 0]
    /\ wire = [k \in Keys |-> <<>>]
    /\ pumpAlive = TRUE
    /\ rxAlive = TRUE
    /\ chan = <<>>
    /\ lagged = FALSE
    /\ items = [id \in CatalogItemIds |->
                  [id |-> id, name |-> InitialName(id), stock |-> InitialStock(id)]]
    /\ handled = <<>>
    /\ chanCapacity = 0
    /\ consumerIn = <<>>
    /\ pumpState = "none"
    /\ receivers = {}
    /\ unread = [r \in Receivers |-> <<>>]
    /\ missed = [r \in Receivers |-> 0]
    /\ subscribedAt = [r \in Receivers |-> -1]
    /\ received = [r \in Receivers |-> <<>>]
    /\ sentLog = <<>>
    /\ consumed = <<>>
    /\ catalogReply = [called |-> FALSE, items |-> {}]
    /\ consumerCreated = "none"
    /\ built = <<>>
    /\ storeCall = [op |-> "none", id |-> 0, stock |-> 0, found |-> FALSE]
    /\ rwWriter = FALSE
    /\ rwReaders = {}
    /\ cbPc = "recv"
    /\ cbEvent = <<>>
    /\ stockAmount = 0
    /\ rdPc = [r \in Readers |-> "idle"]
    /\ rdOp = [r \in Readers |-> [op |-> "none", item_id |-> 0]]
    /\ rdResult = [r \in Readers |-> [op |-> "none", ok |-> FALSE, stock |-> 0, items |-> {}]]

\* ------------------------------------------------------------ place_order
\* A request arrives on worker w; place_order runs up to the await of
\* get_stock.  Calls are numbered in the order in which they arrive, and
\* workers in the order in which they first get a request.
Start(c, w, r) ==
    /\ pc[c] = "idle"
    /\ \A d \in Calls : d < c => pc[d] # "idle"
    /\ \A v \in Workers : v < w => \E d \in Calls : d < c /\ worker[d] = v
    /\ thread[w] = 0
    /\ pc' = [pc EXCEPT ![c] = "query"]
    /\ req' = [req EXCEPT ![c] = r]
    /\ worker' = [worker EXCEPT ![c] = w]
    /\ UNCHANGED <<resp, result, thread, mutex, orderVars, publishVars, apiVars,
                   busVars, catalogVars, listenerVars>>

\* mutant: the lookup sets one unit of the item aside
ItemsAfterGetStock_Reserve(db, item_id) ==
    IF item_id \in DOMAIN db /\ db[item_id].stock > 0
    THEN [db EXCEPT ![item_id].stock = Sub32(@, 1)]
    ELSE db

\* the store after CatalogService::get_stock: the lookup holds db.read() and
\* goes through get_item(&self), which cannot write
ItemsAfterGetStock(db, item_id) == db

\* The catalog answers GET /catalog/stock/{item_id} and the client reads the
\* answer (CatalogApiClient::get_stock -> execute_request).
GetStockAnswered(c) ==
    /\ pc[c] = "query"
    /\ resp' = [resp EXCEPT ![c] = ExecuteRequest(ApiGetStock(items, req[c].item_id))]
    /\ items' = ItemsAfterGetStock(items, req[c].item_id)
    /\ pc' = [pc EXCEPT ![c] = "resp"]
    /\ UNCHANGED <<req, worker, result, thread, mutex, orderVars, publishVars, apiVars,
                   busVars, handled, listenerVars>>

\* The request is not answered (transport failure) or is answered with a
\* non-success status.
GetStockFailed(c, error) ==
    /\ pc[c] = "query"
    /\ resp' = [resp EXCEPT ![c] = [ok |-> FALSE, stock |-> 0, error |-> error]]
    /\ pc' = [pc EXCEPT ![c] = "resp"]
    /\ UNCHANGED <<req, worker, result, thread, mutex, orderVars, publishVars, apiVars,
                   busVars, catalogVars, listenerVars>>

\* place_order resumes with the result of get_stock: map_err(..)?, then the
\* out-of-stock test; a call that passes goes on to self.db.lock().
CheckStock(c) ==
    /\ pc[c] = "resp"
    /\ thread[worker[c]] = 0
    /\ LET d == PlaceOrderDecision(resp[c], req[c].quantity)
       IN  IF d = "Proceed"
           THEN /\ pc' = [pc EXCEPT ![c] = "lock"]
                /\ thread' = [thread EXCEPT ![worker[c]] = c]
                /\ UNCHANGED result
           ELSE /\ result' = [result EXCEPT ![c] = d]
                /\ pc' = [pc EXCEPT ![c] = "done"]
                /\ UNCHANGED thread
    /\ UNCHANGED <<req, worker, resp, mutex, orderVars, publishVars, apiVars, busVars,
                   catalogVars, listenerVars>>

\* mutant: the order store used without its mutex
MutexFree_Always(holder) == TRUE

\* Mutex::lock succeeds only while nobody holds the mutex
MutexFree(holder) == holder = 0

\* self.db.lock().unwrap(): the worker thread blocks until the mutex is free
Lock(c) ==
    /\ pc[c] = "lock"
    /\ thread[worker[c]] = c
    /\ MutexFree(mutex)
    /\ mutex' = c
    /\ pc' = [pc EXCEPT ![c] = "incr"]
    /\ UNCHANGED <<req, worker, resp, result, thread, orderVars, publishVars, apiVars,
                   busVars, catalogVars, listenerVars>>

\* add_order, first statement: self.latest_order_id += 1
AddOrderIncr(c) ==
    /\ pc[c] = "incr"
    /\ latest_order_id' = Add32(latest_order_id, 1)
    /\ pc' = [pc EXCEPT ![c] = "insert"]
    /\ UNCHANGED <<req, worker, resp, result, thread, mutex, orders, commitLog,
                   publishVars, apiVars, busVars, catalogVars, listenerVars>>

\* add_order, second and third statement: Order::new(self.latest_order_id, ..)
\* and self.orders.insert(order.order_id, order)
AddOrderInsert(c) ==
    /\ pc[c] = "insert"
    /\ LET order == NewOrder(latest_order_id, req[c])
       IN  /\ orders' = MapInsert(orders, order.order_id, order)
           /\ commitLog' = Append(commitLog, [call |-> c, order |-> order])
    /\ pc' = [pc EXCEPT ![c] = "publish"]
    /\ UNCHANGED <<req, worker, resp, result, thread, mutex, latest_order_id,
                   publishVars, apiVars, busVars, catalogVars, listenerVars>>

\* the wire message broadcast_event hands to the broker for this request
OrderPlacedMessage(c, order_request) ==
    [kind |-> "json", call |-> c,
     event |-> NewEvent("order_placed", NewOrderPlacedEvent(order_request),
                        "Order", "None", "None")]

\* mutant: a send that failed is tried a second time before the error is
\* returned
BroadcastEventResult_Retry(outcome) ==
    CASE outcome = "serialization" -> [sends |-> 0, returned |-> "Err"]
      [] outcome = "transport" -> [sends |-> 2, returned |-> "Err"]
      [] OTHER -> [sends |-> 1, returned |-> "Ok"]

\* broadcast_event, by the step that fails if one does: the number of calls
\* of produce (each of them one producer.send) and the value returned.
\* serde_json::to_string failing returns through `?` before produce is
\* called; the result of the one produce call is the result of the function.
BroadcastEventResult(outcome) ==
    CASE outcome = "serialization" -> [sends |-> 0, returned |-> "Err"]
      [] outcome = "transport" -> [sends |-> 1, returned |-> "Err"]
      [] OTHER -> [sends |-> 1, returned |-> "Ok"]

\* mutant: db_guard dropped once add_order has returned
HolderAcrossPublish_Released(holder) == 0

\* the holder of the order store's mutex while broadcast_event is awaited:
\* db_guard lives to the end of place_order, so the .await does not release it
HolderAcrossPublish(holder) == holder

\* Event::new and broadcast_event up to the await of the send: the message is
\* serialised and handed to the broker under the key, or one of the two
\* steps fails and nothing is sent.
BroadcastEvent(c, outcome) ==
    /\ pc[c] = "publish"
    /\ pubOutcome' = [pubOutcome EXCEPT ![c] = outcome]
    /\ sendAttempts' = [sendAttempts EXCEPT ![c] = @ + BroadcastEventResult(outcome).sends]
    /\ IF outcome = "sent"
       THEN wire' = [wire EXCEPT ![KeyOf(req[c].item_id)] =
                        Append(@, OrderPlacedMessage(c, req[c]))]
       ELSE UNCHANGED wire
    /\ thread' = [thread EXCEPT ![worker[c]] = 0]
    /\ mutex' = HolderAcrossPublish(mutex)
    /\ pc' = [pc EXCEPT ![c] = "await"]
    /\ UNCHANGED <<req, worker, resp, result, orderVars, pumpAlive,
                   rxAlive, chan, lagged, catalogVars, listenerVars, apiVars>>

\* place_order resumes after the publish: the error, if any, is logged and
\* dropped, Ok(()) is returned and db_guard goes out of scope.
PlaceOrderReturn(c) ==
    /\ pc[c] = "await"
    /\ thread[worker[c]] = 0
    /\ result' = [result EXCEPT ![c] = ReturnAfterPublish(pubOutcome[c])]
    /\ mutex' = 0
    /\ pc' = [pc EXCEPT ![c] = "done"]
    /\ UNCHANGED <<req, worker, resp, thread, orderVars, publishVars, apiVars, busVars,
                   catalogVars, listenerVars>>

\* -------------------------------------------------------- listener pump
\* usize::next_power_of_two, counting up from p
RECURSIVE PowerOfTwoFrom(_, _)
PowerOfTwoFrom(p, n) == IF p >= n THEN p ELSE PowerOfTwoFrom(2 * p, n)

\* broadcast::channel::<T>(buffer_size): the channel keeps the buffer_size
\* rounded up to a power of two
ChannelCapacity(buffer_size) == PowerOfTwoFrom(1, buffer_size)

\* mutants of the send: a full queue keeps its oldest value and loses the
\* new one; the new value is put in front of the unread ones
ChannelSend_DropNewest(queue, value, capacity) ==
    IF Len(queue) >= capacity THEN [queue |-> queue, lagged |-> TRUE]
    ELSE [queue |-> Append(queue, value), lagged |-> FALSE]
ChannelSend_InFront(queue, value, capacity) ==
    LET q == <<value>> \o queue
    IN  IF Len(q) > capacity THEN [queue |-> SubSeq(q, 1, capacity), lagged |-> TRUE]
        ELSE [queue |-> q, lagged |-> FALSE]

\* broadcast::Sender::send with one receiver: the value is queued; a receiver
\* more than the capacity behind loses its oldest value and is marked lagged
ChannelSend(queue, value, capacity) ==
    LET q == Append(queue, value)
    IN  IF Len(q) > capacity THEN [queue |-> Tail(q), lagged |-> TRUE]
        ELSE [queue |-> q, lagged |-> FALSE]

\* One turn of the pump loop on the next message of partition k.
PumpConsume(k) ==
    /\ pumpAlive
    /\ wire[k] # <<>>
    /\ LET m == Head(wire[k])
       IN  /\ wire' = [wire EXCEPT ![k] = Tail(@)]
           /\ CASE m.kind = "nopayload" ->
                     UNCHANGED <<pumpAlive, chan, lagged>>
                [] m.kind = "malformed" ->
                     /\ pumpAlive' = FALSE
                     /\ UNCHANGED <<chan, lagged>>
                [] OTHER ->
                     IF ~rxAlive
                     THEN /\ pumpAlive' = FALSE
                          /\ UNCHANGED <<chan, lagged>>
                     ELSE LET s == ChannelSend(chan, m, ChannelCapacity(BufferSize))
                          IN  /\ chan' = s.queue
                              /\ lagged' = (lagged \/ s.lagged)
                              /\ UNCHANGED pumpAlive
    /\ UNCHANGED <<pc, req, worker, resp, result, thread, mutex, orderVars,
                   publishVars, apiVars, rxAlive, catalogVars, listenerVars>>

\* ------------------------------------------------------ catalog callback
\* mutant: a decrement that is too large empties the stock instead of
\* leaving it
ApplyEvent_Clamp(db, event) ==
    LET id == event.payload.item_id
        quantity == event.payload.quantity
    IN  IF id \notin DOMAIN db
        THEN [db |-> db, outcome |-> "unknown"]
        ELSE IF DecrementRejected(quantity, db[id].stock)
        THEN [db |-> [db EXCEPT ![id].stock = 0], outcome |-> "rejected"]
        ELSE [db |-> [db EXCEPT ![id].stock = Sub32(db[id].stock, quantity)],
              outcome |-> "applied"]

\* mutant: an event for an unknown item creates the item's record
ApplyEvent_CreateRecord(db, event) ==
    LET id == event.payload.item_id
        quantity == event.payload.quantity
    IN  IF id \notin DOMAIN db
        THEN [db |-> MapInsert(db, id, [id |-> id, name |-> "", stock |-> 0]),
              outcome |-> "unknown"]
        ELSE IF DecrementRejected(quantity, db[id].stock)
        THEN [db |-> db, outcome |-> "rejected"]
        ELSE [db |-> [db EXCEPT ![id].stock = Sub32(db[id].stock, quantity)],
              outcome |-> "applied"]

\* mutant: the decrement taken off every item that has the stock for it
ApplyEvent_EveryItem(db, event) ==
    LET id == event.payload.item_id
        quantity == event.payload.quantity
    IN  IF id \notin DOMAIN db
        THEN [db |-> db, outcome |-> "unknown"]
        ELSE IF DecrementRejected(quantity, db[id].stock)
        THEN [db |-> db, outcome |-> "rejected"]
        ELSE [db |-> [j \in DOMAIN db |->
                        IF DecrementRejected(quantity, db[j].stock) THEN db[j]
                        ELSE [db[j] EXCEPT !.stock = Sub32(@, quantity)]],
              outcome |-> "applied"]

\* the body of the callback's loop for one event, under db.write()
ApplyEvent(db, event) ==
    LET id == event.payload.item_id
        quantity == event.payload.quantity
    IN  IF id \notin DOMAIN db
        THEN [db |-> db, outcome |-> "unknown"]
        ELSE IF DecrementRejected(quantity, db[id].stock)
        THEN [db |-> db, outcome |-> "rejected"]
        ELSE [db |-> [db EXCEPT ![id].stock = Sub32(db[id].stock, quantity)],
              outcome |-> "applied"]

\* mutant: recv fails as soon as the sender is gone, whatever is unread
RecvClosed_AtOnce(queue, sender_alive) == ~sender_alive

\* Receiver::recv returns Err(Closed): every sender is gone (the listener of
\* start_event_listeners is dropped at its end, the pump holds the last one)
\* and the receiver has read every value that was sent
RecvClosed(queue, sender_alive) == queue = <<>> /\ ~sender_alive

\* mutant: a receiver that fell behind goes on with the oldest kept value
RecvFails_SkipLag(queue, is_lagged, sender_alive) == RecvClosed(queue, sender_alive)

\* Receiver::recv returns Err: Lagged for a receiver that lost values, Closed
\* otherwise; `while let Ok(event)` ends on either
RecvFails(queue, is_lagged, sender_alive) ==
    is_lagged \/ RecvClosed(queue, sender_alive)

\* One turn of `while let Ok(event) = receiver.recv().await`.
CallbackRecv ==
    /\ rxAlive
    /\ IF RecvFails(chan, lagged, pumpAlive)
       THEN /\ rxAlive' = FALSE
            /\ UNCHANGED <<chan, lagged, items, handled>>
       ELSE /\ chan # <<>>
            /\ LET m == Head(chan)
                   r == ApplyEvent(items, m.event)
               IN  /\ chan' = Tail(chan)
                   /\ items' = r.db
                   /\ handled' = Append(handled,
                          [call |-> m.call, payload |-> m.event.payload,
                           before |-> ServiceGetStock(items, m.event.payload.item_id).stock,
                           outcome |-> r.outcome])
            /\ UNCHANGED <<rxAlive, lagged>>
    /\ UNCHANGED <<pc, req, worker, resp, result, thread, mutex, orderVars,
                   publishVars, apiVars, wire, pumpAlive, listenerVars>>

\* ---------------------------------------------------- other producers
\* events another producer may put on the order_placed topic
EventQuantities == {0, 1, 60, 101}
\* number of events other producers put on the topic
MaxEvents == 3

\* number of messages waiting in the partitions ks of the broker
RECURSIVE WireCount(_)
WireCount(ks) ==
    IF ks = {} THEN 0
    ELSE LET k == CHOOSE x \in ks : TRUE
         IN  Len(wire[k]) + WireCount(ks \ {k})

\* A message reaches the topic from outside the order service: at most
\* `limit` of them are on the way or handled at any time.
Produce(kind, item_id, quantity, limit) ==
    /\ Len(handled) + Len(chan) + WireCount(Keys) < limit
    /\ wire' = [wire EXCEPT ![KeyOf(item_id)] =
                    Append(@, [kind |-> kind, call |-> 0,
                               event |-> NewEvent("order_placed",
                                   [item_id |-> item_id, quantity |-> quantity],
                                   "Order", "None", "None")])]
    /\ UNCHANGED <<pc, req, worker, resp, result, thread, mutex, orderVars,
                   publishVars, apiVars, pumpAlive, rxAlive, chan, lagged, catalogVars, listenerVars>>

\* An order_placed event reaches the topic through broadcast_event of some
\* other producer (or is delivered again by the broker): any item id, any
\* quantity, unrelated to any stock check.
ProduceEvent(item_id, quantity) == Produce("json", item_id, quantity, MaxEvents)

\* A message whose payload is no Event<OrderPlacedEvent> reaches the topic,
\* in the partition of item_id.
ProduceMalformed(item_id) == Produce("malformed", item_id, 0, MaxEvents)

\* ---------------------------------------------------- GET /catalog
\* mutant: every item listed, whatever its stock
ServiceGetItems_NoFilter(db) ==
    {[id |-> db[i].id, name |-> db[i].name] : i \in DOMAIN db}

\* CatalogService::get_items: the ClothingItemDTO (the item without its
\* stock) of every item of the store whose stock is above 0; the order of the
\* Vec is that of HashMap::values and carries no meaning
ServiceGetItems(db) ==
    {[id |-> db[i].id, name |-> db[i].name] :
        i \in {j \in DOMAIN db : db[j].stock > 0}}

\* A client calls GET /catalog: get_items under db.read().
GetCatalog ==
    /\ catalogReply' = [called |-> TRUE, items |-> ServiceGetItems(items)]
    /\ UNCHANGED <<pc, req, worker, resp, result, thread, mutex, orderVars,
                   publishVars, busVars, catalogVars, listenerVars,
                   consumerCreated, built, storeCall, lockVars>>

\* ------------------------------------------------------------------- Next
Next ==
    \/ \E c \in Calls, w \in Workers, r \in OrderRequests : Start(c, w, r)
    \/ \E c \in Calls : GetStockAnswered(c)
    \/ \E c \in Calls, e \in {"RequestError", "Standard"} : GetStockFailed(c, e)
    \/ \E c \in Calls : CheckStock(c)
    \/ \E c \in Calls : Lock(c)
    \/ \E c \in Calls : AddOrderIncr(c)
    \/ \E c \in Calls : AddOrderInsert(c)
    \/ \E c \in Calls, o \in {"sent", "serialization", "transport"} : BroadcastEvent(c, o)
    \/ \E c \in Calls : PlaceOrderReturn(c)
    \/ \E k \in Keys : PumpConsume(k)
    \/ CallbackRecv

Spec == Init /\ [][Next]_vars

\* The spawned pump task and callback task are polled by their runtime
\* whenever they can make progress.
FairSpec ==
    /\ Spec
    /\ WF_vars(\E k \in Keys : PumpConsume(k))
    /\ WF_vars(CallbackRecv)

\* The catalog service alone, fed by arbitrary order_placed events.
CatalogNext ==
    \/ \E i \in RequestItemIds, q \in EventQuantities : ProduceEvent(i, q)
    \/ \E k \in Keys : PumpConsume(k)
    \/ CallbackRecv
    \/ GetCatalog

CatalogSpec == Init /\ [][CatalogNext]_vars

\* The catalog service fed by a producer that sends orders of 1 and of 60 for
\* the items 1 and 5 and, now and then, a message that does not parse.
PoisonNext ==
    \/ \E i \in {1, 5}, q \in {1, 60} : ProduceEvent(i, q)
    \/ \E i \in {1, 5} : ProduceMalformed(i)
    \/ \E k \in Keys : PumpConsume(k)
    \/ CallbackRecv

PoisonSpec == Init /\ [][PoisonNext]_vars

\* ------------------------------------------------- the catalog store
\* ids, stocks and items the store's functions are called with: a stored
\* item, the last stored item, an id that gets added and one that never is
StoreIds == {1, 5, 10, 100}
StoreStocks == {0, 20, 101}
StoreItems ==
    {[id |-> i, name |-> "Test Item", stock |-> s] : i \in {1, 10}, s \in {0, 20}}
NoItem == [id |-> 0, name |-> "", stock |-> 0]

\* CatalogDbClient::get_item: self.items.get(&id)
GetItem(db, id) ==
    IF id \in DOMAIN db THEN [some |-> TRUE, item |-> db[id]]
    ELSE [some |-> FALSE, item |-> NoItem]

\* mutant: get_mut_item hands out a copy of the item, the write is lost
WriteThroughMutItem_Copy(db, id, stock) == db

\* the store after `if let Some(item) = db.get_mut_item(id) { item.stock =
\* stock }`: get_mut_item is self.items.get_mut(&id), a reference into the map
WriteThroughMutItem(db, id, stock) ==
    IF id \in DOMAIN db THEN [db EXCEPT ![id].stock = stock] ELSE db

\* CatalogDbClient::add_item: self.items.insert(item.id, item)
AddItem(item) ==
    /\ items' = MapInsert(items, item.id, item)
    /\ storeCall' = [op |-> "add_item", id |-> item.id, stock |-> item.stock,
                     found |-> TRUE]
    /\ UNCHANGED <<pc, req, worker, resp, result, thread, mutex, orderVars,
                   publishVars, catalogReply, consumerCreated, built, lockVars,
                   busVars, handled, listenerVars>>

\* A caller changes the stock of an item through get_mut_item.
MutItem(id, stock) ==
    /\ items' = WriteThroughMutItem(items, id, stock)
    /\ storeCall' = [op |-> "get_mut_item", id |-> id, stock |-> stock,
                     found |-> GetItem(items, id).some]
    /\ UNCHANGED <<pc, req, worker, resp, result, thread, mutex, orderVars,
                   publishVars, catalogReply, consumerCreated, built, lockVars,
                   busVars, handled, listenerVars>>

\* The store under any sequence of add_item and writes through get_mut_item.
StoreNext ==
    \/ \E item \in StoreItems : AddItem(item)
    \/ \E id \in StoreIds, stock \in StoreStocks : MutItem(id, stock)

StoreSpec == Init /\ [][StoreNext]_vars

\* ------------------------------------- the RwLock of the catalog store
\* mutant: a read guard handed out while the write guard is held
ReadLockFree_Always(writer) == TRUE

\* RwLock::read returns once no write guard is held (whether it also waits
\* for a writer that is waiting is left to the platform: it may return)
ReadLockFree(writer) == ~writer

\* RwLock::write returns once no guard at all is held
WriteLockFree(writer, readers) == ~writer /\ readers = {}

\* the callback's `receiver.recv().await`: the next event, or the end of the
\* loop
CallbackTake ==
    /\ rxAlive
    /\ cbPc = "recv"
    /\ IF RecvFails(chan, lagged, pumpAlive)
       THEN /\ rxAlive' = FALSE
            /\ UNCHANGED <<chan, cbPc, cbEvent>>
       ELSE /\ chan # <<>>
            /\ cbEvent' = <<Head(chan)>>
            /\ chan' = Tail(chan)
            /\ cbPc' = "lock"
            /\ UNCHANGED rxAlive
    /\ UNCHANGED <<pc, req, worker, resp, result, thread, mutex, orderVars,
                   publishVars, catalogReply, consumerCreated, built, storeCall,
                   rwWriter, rwReaders, stockAmount, rdPc, rdOp, rdResult,
                   wire, pumpAlive, lagged, catalogVars, listenerVars>>

\* `let mut db = db_clone.write().unwrap()`: the task's thread blocks until
\* every guard is released
CallbackWriteLock ==
    /\ cbPc = "lock"
    /\ WriteLockFree(rwWriter, rwReaders)
    /\ rwWriter' = TRUE
    /\ cbPc' = "check"
    /\ UNCHANGED <<pc, req, worker, resp, result, thread, mutex, orderVars,
                   publishVars, catalogReply, consumerCreated, built, storeCall,
                   rwReaders, cbEvent, stockAmount, rdPc, rdOp, rdResult,
                   busVars, catalogVars, listenerVars>>

\* get_mut_item and the test: None and a quantity above the stock end the
\* turn (the guard is dropped with it); otherwise the stock is copied into
\* the local stock_amount
CallbackCheck ==
    /\ cbPc = "check"
    /\ LET m == cbEvent[1]
           id == m.event.payload.item_id
           found == GetItem(items, id)
           outcome == IF ~found.some THEN "unknown" ELSE "rejected"
       IN  IF found.some /\ ~DecrementRejected(m.event.payload.quantity, found.item.stock)
           THEN /\ stockAmount' = found.item.stock
                /\ cbPc' = "write"
                /\ UNCHANGED <<rwWriter, cbEvent, handled>>
           ELSE /\ handled' = Append(handled,
                       [call |-> m.call, payload |-> m.event.payload,
                        before |-> ServiceGetStock(items, id).stock,
                        outcome |-> outcome])
                /\ rwWriter' = FALSE
                /\ cbEvent' = <<>>
                /\ cbPc' = "recv"
                /\ UNCHANGED stockAmount
    /\ UNCHANGED <<pc, req, worker, resp, result, thread, mutex, orderVars,
                   publishVars, catalogReply, consumerCreated, built, storeCall,
                   rwReaders, rdPc, rdOp, rdResult, busVars, items, listenerVars>>

\* `stock_amount -= event.payload.quantity; item.stock = stock_amount`, then
\* the end of the turn drops the guard
CallbackWrite ==
    /\ cbPc = "write"
    /\ LET m == cbEvent[1]
           id == m.event.payload.item_id
       IN  /\ items' = WriteThroughMutItem(items, id,
                            Sub32(stockAmount, m.event.payload.quantity))
           /\ handled' = Append(handled,
                  [call |-> m.call, payload |-> m.event.payload,
                   before |-> stockAmount, outcome |-> "applied"])
    /\ rwWriter' = FALSE
    /\ cbEvent' = <<>>
    /\ cbPc' = "recv"
    /\ UNCHANGED <<pc, req, worker, resp, result, thread, mutex, orderVars,
                   publishVars, catalogReply, consumerCreated, built, storeCall,
                   rwReaders, stockAmount, rdPc, rdOp, rdResult, busVars,
                   listenerVars>>

\* requests the catalog serves: the stock of an item, the catalog
ReaderOps ==
    {[op |-> "get_stock", item_id |-> 1], [op |-> "get_items", item_id |-> 0]}

\* A worker thread starts get_stock or get_items.
ReaderCall(r, op) ==
    /\ rdPc[r] = "idle"
    /\ rdOp' = [rdOp EXCEPT ![r] = op]
    /\ rdResult' = [rdResult EXCEPT ![r] =
                        [op |-> "none", ok |-> FALSE, stock |-> 0, items |-> {}]]
    /\ rdPc' = [rdPc EXCEPT ![r] = "lock"]
    /\ UNCHANGED <<pc, req, worker, resp, result, thread, mutex, orderVars,
                   publishVars, catalogReply, consumerCreated, built, storeCall,
                   rwWriter, rwReaders, cbPc, cbEvent, stockAmount,
                   busVars, catalogVars, listenerVars>>

\* `let db = self.db.read().unwrap()`
ReaderLock(r) ==
    /\ rdPc[r] = "lock"
    /\ ReadLockFree(rwWriter)
    /\ rwReaders' = rwReaders \cup {r}
    /\ rdPc' = [rdPc EXCEPT ![r] = "inside"]
    /\ UNCHANGED <<pc, req, worker, resp, result, thread, mutex, orderVars,
                   publishVars, catalogReply, consumerCreated, built, storeCall,
                   rwWriter, cbPc, cbEvent, stockAmount, rdOp, rdResult,
                   busVars, catalogVars, listenerVars>>

\* the lookup and the return of get_stock or get_items, which drops the guard
ReaderReturn(r) ==
    /\ rdPc[r] = "inside"
    /\ rdResult' = [rdResult EXCEPT ![r] =
          IF rdOp[r].op = "get_stock"
          THEN LET s == ServiceGetStock(items, rdOp[r].item_id)
               IN  [op |-> "get_stock", ok |-> s.ok, stock |-> s.stock, items |-> {}]
          ELSE [op |-> "get_items", ok |-> TRUE, stock |-> 0,
                items |-> ServiceGetItems(items)]]
    /\ rwReaders' = rwReaders \ {r}
    /\ rdOp' = [rdOp EXCEPT ![r] = [op |-> "none", item_id |-> 0]]
    /\ rdPc' = [rdPc EXCEPT ![r] = "idle"]
    /\ UNCHANGED <<pc, req, worker, resp, result, thread, mutex, orderVars,
                   publishVars, catalogReply, consumerCreated, built, storeCall,
                   rwWriter, cbPc, cbEvent, stockAmount,
                   busVars, catalogVars, listenerVars>>

\* The catalog service with its lock: orders of 60 for item 1 and of 1 for
\* an unknown item arrive while requests read the store.
RwNext ==
    \/ \E e \in {<<1, 60>>, <<999, 1>>} : ProduceEvent(e[1], e[2])
    \/ \E k \in Keys : PumpConsume(k)
    \/ CallbackTake
    \/ CallbackWriteLock
    \/ CallbackCheck
    \/ CallbackWrite
    \/ \E r \in Readers, op \in ReaderOps : ReaderCall(r, op)
    \/ \E r \in Readers : ReaderLock(r)
    \/ \E r \in Readers : ReaderReturn(r)

RwSpec == Init /\ [][RwNext]_vars

\* number of orders a producer may have on the way to a slow catalog
MaxBacklog == 130

\* The catalog service behind a producer of orders of 60 for item 1 that is
\* up to MaxBacklog orders ahead of the callback.
LagNext ==
    \/ Produce("json", 1, 60, MaxBacklog)
    \/ \E k \in Keys : PumpConsume(k)
    \/ CallbackRecv

LagSpec == Init /\ [][LagNext]_vars

\* --------------------------------------------- a listener and its receivers
\* KafkaListener<T> with any number of receivers: KafkaListener::new with a
\* buffer_size of the caller's choice, get_receiver at any time, receivers
\* that read at their own pace or are dropped.  The values of T are numbered
\* in the order in which the broker delivers them.

\* what consumer.recv() may return
DeliveryKinds == {"json", "malformed", "nopayload", "error"}

\* mutants of the pump's match: a malformed payload skipped; a consumer error
\* ending the loop; a message without payload treated like one that does not
\* parse; a failed send ignored
PumpOutcome_SkipMalformed(kind, receiver_count) ==
    CASE kind = "error" -> "logged"
      [] kind = "nopayload" -> "skipped"
      [] kind = "malformed" -> "skipped"
      [] OTHER -> IF receiver_count = 0 THEN "stopped" ELSE "broadcast"
PumpOutcome_ErrorStops(kind, receiver_count) ==
    CASE kind = "error" -> "stopped"
      [] kind = "nopayload" -> "skipped"
      [] kind = "malformed" -> "panicked"
      [] OTHER -> IF receiver_count = 0 THEN "stopped" ELSE "broadcast"
PumpOutcome_NoPayloadFatal(kind, receiver_count) ==
    CASE kind = "error" -> "logged"
      [] kind = "nopayload" -> "panicked"
      [] kind = "malformed" -> "panicked"
      [] OTHER -> IF receiver_count = 0 THEN "stopped" ELSE "broadcast"
PumpOutcome_SendFailureIgnored(kind, receiver_count) ==
    CASE kind = "error" -> "logged"
      [] kind = "nopayload" -> "skipped"
      [] kind = "malformed" -> "panicked"
      [] OTHER -> IF receiver_count = 0 THEN "skipped" ELSE "broadcast"

\* one turn of the pump's loop, by what consumer.recv() returned and the
\* number of receivers: Err(e) is logged; a message without payload is passed
\* over; a payload that does not parse panics the task; a parsed message is
\* sent, and a send that fails (no receiver exists) breaks the loop
PumpOutcome(kind, receiver_count) ==
    CASE kind = "error" -> "logged"
      [] kind = "nopayload" -> "skipped"
      [] kind = "malformed" -> "panicked"
      [] OTHER -> IF receiver_count = 0 THEN "stopped" ELSE "broadcast"

\* mutant: the value handed to one receiver only (a shared work queue)
Broadcast_OnlyOne(queues, rs, value, cap) ==
    [r \in DOMAIN queues |->
        IF rs # {} /\ r = CHOOSE x \in rs : \A y \in rs : x <= y
        THEN ChannelSend(queues[r], value, cap)
        ELSE [queue |-> queues[r], lagged |-> FALSE]]

\* tx_clone.send(parsed_message): every receiver that exists gets the value
Broadcast(queues, rs, value, cap) ==
    [r \in DOMAIN queues |->
        IF r \in rs THEN ChannelSend(queues[r], value, cap)
        ELSE [queue |-> queues[r], lagged |-> FALSE]]

\* mutant: the new receiver starts with the values the channel still holds
Subscribe_Replay(log, cap) ==
    [queue |-> SubSeq(log, Len(log) - (IF Len(log) < cap THEN Len(log) ELSE cap) + 1,
                      Len(log)),
     at |-> Len(log)]

\* self.tx.subscribe(): the new receiver starts at the tail of the channel
Subscribe(log, cap) == [queue |-> <<>>, at |-> Len(log)]

\* mutant: recv hands out the newest unread value
Recv_Newest(queue, lost) ==
    IF lost > 0
    THEN [result |-> [ok |-> FALSE, value |-> lost], queue |-> queue]
    ELSE [result |-> [ok |-> TRUE, value |-> queue[Len(queue)]],
          queue |-> SubSeq(queue, 1, Len(queue) - 1)]

\* Receiver::recv with something to return: Err(Lagged(n)) once after the
\* receiver lost n values, otherwise the oldest unread value
Recv(queue, lost) ==
    IF lost > 0
    THEN [result |-> [ok |-> FALSE, value |-> lost], queue |-> queue]
    ELSE [result |-> [ok |-> TRUE, value |-> Head(queue)], queue |-> Tail(queue)]

\* KafkaListener::new(consumer, buffer_size): the channel is created, its
\* first receiver is dropped on the spot and the pump task is spawned.  One
\* listener is created in a run, here or through create_event_listener.
KafkaListenerNew(buffer_size) ==
    /\ pumpState = "none"
    /\ consumerCreated = "none"
    /\ chanCapacity' = ChannelCapacity(buffer_size)
    /\ pumpState' = "running"
    /\ UNCHANGED <<pc, req, worker, resp, result, thread, mutex, orderVars,
                   publishVars, apiVars, busVars, catalogVars, consumerIn, receivers,
                   unread, missed, subscribedAt, received, sentLog, consumed>>

\* what create_consumer may return: the consumer, or the error of
\* ClientConfig::create or of consumer.subscribe
ConsumerResults == {"ok", "create", "subscribe"}

\* mutant: the error of create_consumer passed over, the listener built anyway
CreateEventListenerResult_IgnoreError(consumer_result) == "Ok"

\* create_event_listener: the error of create_consumer is returned through
\* `?` before KafkaListener::new is reached
CreateEventListenerResult(consumer_result) ==
    IF consumer_result = "ok" THEN "Ok" ELSE "Err"

\* event_bus.create_event_listener(group_id, topics), as start_event_listeners
\* calls it: on Ok the listener is KafkaListener::new(consumer, 100); on Err
\* the caller's expect panics, and neither get_receiver nor the spawn of the
\* callback is reached.
CreateEventListener(consumer_result) ==
    /\ pumpState = "none"
    /\ consumerCreated = "none"
    /\ consumerCreated' = consumer_result
    /\ IF CreateEventListenerResult(consumer_result) = "Ok"
       THEN /\ chanCapacity' = ChannelCapacity(BufferSize)
            /\ pumpState' = "running"
       ELSE UNCHANGED <<chanCapacity, pumpState>>
    /\ UNCHANGED <<pc, req, worker, resp, result, thread, mutex, orderVars,
                   publishVars, busVars, catalogVars, consumerIn, receivers,
                   unread, missed, subscribedAt, received, sentLog, consumed,
                   catalogReply, built, storeCall, lockVars>>

\* The broker has the next result for consumer.recv(): a message with a JSON
\* payload of T, with a payload that is no T, or without payload, or an error.
Deliver(kind) ==
    /\ pumpState # "none"
    /\ Len(consumed) + Len(consumerIn) < MaxDeliveries
    /\ consumerIn' = Append(consumerIn,
                        [kind |-> kind, value |-> Len(consumed) + Len(consumerIn) + 1])
    /\ UNCHANGED <<pc, req, worker, resp, result, thread, mutex, orderVars,
                   publishVars, apiVars, busVars, catalogVars, chanCapacity, pumpState,
                   receivers, unread, missed, subscribedAt, received, sentLog,
                   consumed>>

\* One turn of the loop of the pump task.
ListenerPump ==
    /\ pumpState = "running"
    /\ consumerIn # <<>>
    /\ LET m == Head(consumerIn)
           o == PumpOutcome(m.kind, Cardinality(receivers))
           b == Broadcast(unread, receivers, m.value, chanCapacity)
       IN  /\ consumerIn' = Tail(consumerIn)
           /\ consumed' = Append(consumed,
                              [kind |-> m.kind, value |-> m.value, outcome |-> o])
           /\ pumpState' = (IF o \in {"panicked", "stopped"} THEN o ELSE "running")
           /\ IF o = "broadcast"
              THEN /\ unread' = [r \in Receivers |-> b[r].queue]
                   /\ missed' = [r \in Receivers |->
                                    missed[r] + (IF b[r].lagged THEN 1 ELSE 0)]
                   /\ sentLog' = Append(sentLog, m.value)
              ELSE UNCHANGED <<unread, missed, sentLog>>
    /\ UNCHANGED <<pc, req, worker, resp, result, thread, mutex, orderVars,
                   publishVars, apiVars, busVars, catalogVars, chanCapacity, receivers,
                   subscribedAt, received>>

\* listener.get_receiver(); receivers are numbered in the order in which they
\* are taken
GetReceiver(r) ==
    /\ pumpState # "none"
    /\ subscribedAt[r] = -1
    /\ \A q \in Receivers : q < r => subscribedAt[q] # -1
    /\ LET s == Subscribe(sentLog, chanCapacity)
       IN  /\ unread' = [unread EXCEPT ![r] = s.queue]
           /\ subscribedAt' = [subscribedAt EXCEPT ![r] = s.at]
    /\ receivers' = receivers \cup {r}
    /\ UNCHANGED <<pc, req, worker, resp, result, thread, mutex, orderVars,
                   publishVars, apiVars, busVars, catalogVars, chanCapacity, consumerIn,
                   pumpState, missed, received, sentLog, consumed>>

\* receiver.recv().await returns (it waits while there is nothing to return)
ReceiverRecv(r) ==
    /\ r \in receivers
    /\ missed[r] > 0 \/ unread[r] # <<>>
    /\ LET v == Recv(unread[r], missed[r])
       IN  /\ received' = [received EXCEPT ![r] = Append(@, v.result)]
           /\ unread' = [unread EXCEPT ![r] = v.queue]
    /\ missed' = [missed EXCEPT ![r] = 0]
    /\ UNCHANGED <<pc, req, worker, resp, result, thread, mutex, orderVars,
                   publishVars, apiVars, busVars, catalogVars, chanCapacity, consumerIn,
                   pumpState, receivers, subscribedAt, sentLog, consumed>>

\* the owner of receiver r drops it
DropReceiver(r) ==
    /\ r \in receivers
    /\ receivers' = receivers \ {r}
    /\ unread' = [unread EXCEPT ![r] = <<>>]
    /\ missed' = [missed EXCEPT ![r] = 0]
    /\ UNCHANGED <<pc, req, worker, resp, result, thread, mutex, orderVars,
                   publishVars, apiVars, busVars, catalogVars, chanCapacity, consumerIn,
                   pumpState, subscribedAt, received, sentLog, consumed>>

ListenerNext ==
    \/ \E b \in BufferSizes : KafkaListenerNew(b)
    \/ \E cr \in ConsumerResults : CreateEventListener(cr)
    \/ \E k \in DeliveryKinds : Deliver(k)
    \/ ListenerPump
    \/ \E r \in Receivers : GetReceiver(r)
    \/ \E r \in Receivers : ReceiverRecv(r)
    \/ \E r \in Receivers : DropReceiver(r)

ListenerSpec == Init /\ [][ListenerNext]_vars

\* ------------------------------------------------------ Event::new alone
\* the inputs Event::new is called with, and the readings of the clock
EventTypes == {"order_placed", "order_cancelled"}
Payloads == {[item_id |-> 1, quantity |-> 60], [item_id |-> 5, quantity |-> 1]}
Sources == {"Order", "Catalog"}
CorrelationIds == {"None", "Some(12345)"}
Metadatas == {"None", "Some({retry: 1})"}
Times == {1, 2}

\* mutant: the correlation id taken from the clock, a fresh one per envelope
NewEventAt_FreshCorrelation(now, event_type, payload, source, correlation_id, metadata) ==
    [event_type |-> event_type, payload |-> payload, timestamp |-> now,
     source |-> source, correlation_id |-> ToString(now), metadata |-> metadata]

\* Event::new with its timestamp: SystemTime::now() returned `now`
NewEventAt(now, event_type, payload, source, correlation_id, metadata) ==
    LET e == NewEvent(event_type, payload, source, correlation_id, metadata)
    IN  [event_type |-> e.event_type, payload |-> e.payload, timestamp |-> now,
         source |-> e.source, correlation_id |-> e.correlation_id,
         metadata |-> e.metadata]

\* Some caller builds an envelope.
BuildEvent(now, event_type, payload, source, correlation_id, metadata) ==
    /\ Len(built) < MaxBuilt
    /\ built' = Append(built,
          [inputs |-> [event_type |-> event_type, payload |-> payload,
                       source |-> source, correlation_id |-> correlation_id,
                       metadata |-> metadata],
           event |-> NewEventAt(now, event_type, payload, source,
                                correlation_id, metadata)])
    /\ UNCHANGED <<pc, req, worker, resp, result, thread, mutex, orderVars,
                   publishVars, busVars, catalogVars, listenerVars,
                   catalogReply, consumerCreated, storeCall, lockVars>>

EventNext ==
    \E now \in Times, t \in EventTypes, p \in Payloads, s \in Sources,
       c \in CorrelationIds, m \in Metadatas : BuildEvent(now, t, p, s, c, m)

EventSpec == Init /\ [][EventNext]_vars

\* =================================================================== claims
\* the call is past the test of place_order
PastCheck(c) == pc[c] \in {"lock", "incr", "insert", "publish", "await", "done"}
\* positions of the inserts call c made
CommitsOf(c) == {i \in DOMAIN commitLog : commitLog[i].call = c}
\* events of call c on the broker, in the channel or handled by the catalog
WireOf(c) ==
    UNION {{<<k, i>> : i \in {j \in DOMAIN wire[k] : wire[k][j].call = c}} : k \in Keys}
ChanOf(c) == {i \in DOMAIN chan : chan[i].call = c}
HandledOf(c) == {i \in DOMAIN handled : handled[i].call = c}
EventCount(c) ==
    Cardinality(WireOf(c)) + Cardinality(ChanOf(c)) + Cardinality(HandledOf(c))

\* ----------------------------------------------------------------------- C1
StockTooSmall(c) == resp[c].ok /\ resp[c].stock < req[c].quantity

\* C1: a place_order call whose stock query returned less than the requested
\* quantity returns ItemOutOfStock at once; it never inserts an order, never
\* calls broadcast_event and has no event anywhere, and the step that rejects
\* it leaves latest_order_id, orders, the mutex and the broker unchanged.
C1_OutOfStockRejected ==
    /\ [](\A c \in Calls : (PastCheck(c) /\ StockTooSmall(c)) =>
              /\ pc[c] = "done"
              /\ result[c] = "ItemOutOfStock"
              /\ CommitsOf(c) = {}
              /\ pubOutcome[c] = "none"
              /\ EventCount(c) = 0)
    /\ [][\A c \in Calls :
              (pc[c] = "resp" /\ pc'[c] # "resp" /\ StockTooSmall(c)) =>
                  UNCHANGED <<latest_order_id, orders, commitLog, mutex, wire>>]_vars

\* a call was rejected as out of stock while the store already held an order
C1_Witness ==
    \E c \in Calls :
        /\ pc[c] = "done" /\ StockTooSmall(c)
        /\ result[c] = "ItemOutOfStock"
        /\ Len(commitLog) >= 1

\* ----------------------------------------------------------------------- C2
QueryFailed(c) == pc[c] \notin {"idle", "query"} /\ ~resp[c].ok

\* C2: a place_order call whose stock query failed (no answer, a non-success
\* status, a body that is no integer) returns CatalogNetworkError at once; it
\* never inserts an order and never publishes, and the step that returns the
\* error leaves the order store and the broker unchanged.
C2_QueryFailureAborts ==
    /\ [](\A c \in Calls : (PastCheck(c) /\ QueryFailed(c)) =>
              /\ pc[c] = "done"
              /\ result[c] = "CatalogNetworkError"
              /\ CommitsOf(c) = {}
              /\ pubOutcome[c] = "none"
              /\ EventCount(c) = 0)
    /\ [][\A c \in Calls :
              (pc[c] = "resp" /\ pc'[c] # "resp" /\ QueryFailed(c)) =>
                  UNCHANGED <<latest_order_id, orders, commitLog, mutex, wire>>]_vars

\* one call failed on an undeserialisable body, another on a non-success status
C2_Witness ==
    \E c, d \in Calls :
        /\ pc[c] = "done" /\ resp[c].error = "JsonError"
        /\ result[c] = "CatalogNetworkError"
        /\ pc[d] = "done" /\ resp[d].error = "Standard"
        /\ result[d] = "CatalogNetworkError"

\* ----------------------------------------------------------------------- C3
StockSuffices(c) == resp[c].ok /\ req[c].quantity <= resp[c].stock

\* C3: a place_order call whose requested quantity is at most the stock the
\* query returned never returns an error; once it is past add_order it has
\* inserted exactly one order, which carries the request's item_id, name and
\* address and is in the store under its order_id; when it returns, it
\* returns Ok.
C3_SufficientStockCommits ==
    \A c \in Calls : (PastCheck(c) /\ StockSuffices(c)) =>
        /\ result[c] \in {"none", "Ok"}
        /\ pc[c] = "done" => result[c] = "Ok"
        /\ pc[c] \in {"lock", "incr", "insert"} => CommitsOf(c) = {}
        /\ pc[c] \in {"publish", "await", "done"} =>
              /\ Cardinality(CommitsOf(c)) = 1
              /\ \A i \in CommitsOf(c) :
                    LET o == commitLog[i].order
                    IN  /\ o.item_id = req[c].item_id
                        /\ o.name = req[c].name
                        /\ o.address = req[c].address
                        /\ o.order_id \in DOMAIN orders
                        /\ orders[o.order_id] = o

\* a call asking for exactly the stock returned has come back with Ok
C3_Witness ==
    \E c \in Calls :
        /\ pc[c] = "done" /\ resp[c].ok
        /\ req[c].quantity = resp[c].stock /\ req[c].quantity > 0
        /\ result[c] = "Ok"
        /\ Cardinality(CommitsOf(c)) = 1

\* ----------------------------------------------------------------------- C4
\* C4: the order_ids of the inserts are strictly increasing in the order of
\* the inserts, no insert replaces a stored order, and a call is between
\* lock() and its return only while it holds the mutex.
C4_UniqueIncreasingIds ==
    /\ \A i, j \in DOMAIN commitLog :
          i < j => commitLog[i].order.order_id < commitLog[j].order.order_id
    /\ Cardinality(DOMAIN orders) = Len(commitLog)
    /\ \A c \in Calls :
          pc[c] \in {"incr", "insert", "publish", "await"} => mutex = c

\* two calls on different worker threads have both inserted, the later
\* arrival first
C4_Witness ==
    /\ Len(commitLog) = 2
    /\ commitLog[1].call > commitLog[2].call
    /\ worker[commitLog[1].call] # worker[commitLog[2].call]

\* ----------------------------------------------------------------------- C5
PublishFailed(c) == pubOutcome[c] \in {"serialization", "transport"}

\* C5: a place_order call whose publish failed returns Ok, its order is in
\* the store as inserted, and no event of the call is on the broker, in the
\* channel or handled by the catalog (nothing was sent again).
C5_PublishFailureSwallowed ==
    \A c \in Calls : (pc[c] = "done" /\ PublishFailed(c)) =>
        /\ result[c] = "Ok"
        /\ Cardinality(CommitsOf(c)) = 1
        /\ \A i \in CommitsOf(c) :
              /\ commitLog[i].order.order_id \in DOMAIN orders
              /\ orders[commitLog[i].order.order_id] = commitLog[i].order
        /\ EventCount(c) = 0

\* a call whose send failed in transport has returned Ok, after which
\* another call has inserted its own order
C5_Witness ==
    \E c \in Calls :
        /\ pc[c] = "done" /\ pubOutcome[c] = "transport"
        /\ result[c] = "Ok"
        /\ \E i \in CommitsOf(c) : i < Len(commitLog)
\* ----------------------------------------------------------------------- C6
\* every call has returned and no event is left on the broker or in the channel
Quiescent ==
    /\ \A c \in Calls : pc[c] = "done"
    /\ WireCount(Keys) = 0
    /\ chan = <<>>

\* C6 as claimed, on the final state of a run: once every call has returned
\* and every event in flight has been handled, each call that returned Ok has
\* had its quantity taken off the stock.
C6_EveryOrderDecrements ==
    Quiescent =>
        \A c \in Calls : result[c] = "Ok" =>
            \E i \in HandledOf(c) : handled[i].outcome = "applied"

\* quantities the callback took off the stock of item id in the events hs
RECURSIVE AppliedSum(_, _)
AppliedSum(hs, id) ==
    IF hs = <<>> THEN 0
    ELSE (IF Head(hs).outcome = "applied" /\ Head(hs).payload.item_id = id
          THEN Head(hs).payload.quantity ELSE 0) + AppliedSum(Tail(hs), id)

C6_Safety ==
    /\ \A c \in Calls :
          /\ EventCount(c) = (IF pubOutcome[c] = "sent" THEN 1 ELSE 0)
          /\ pubOutcome[c] # "none" => CommitsOf(c) # {}
          /\ \A i \in HandledOf(c) :
                /\ handled[i].payload = [item_id |-> req[c].item_id,
                                         quantity |-> req[c].quantity]
                /\ handled[i].outcome = "applied"
                      <=> req[c].quantity <= handled[i].before
    /\ \A id \in CatalogItemIds :
          items[id].stock = InitialStock(id) - AppliedSum(handled, id)

\* C6, amended: a call publishes at most one event, only after its insert; the
\* event the broker accepted is eventually handled by the catalog callback,
\* which takes the order's quantity off the item's stock if and only if the
\* quantity does not exceed the stock at that moment; the stock of every item
\* is its initial stock less the quantities so applied, so a failed publish or
\* a rejected event leaves the order without its decrement.
C6_SentEventsAreHandled ==
    /\ []C6_Safety
    /\ \A c \in Calls : (pubOutcome[c] = "sent") ~> (HandledOf(c) # {})

\* an order of 60 was published and the catalog took 60 off the stock of 100
C6_Witness ==
    \E c \in Calls :
        /\ result[c] = "Ok" /\ pubOutcome[c] = "sent"
        /\ req[c].item_id = 1 /\ req[c].quantity = 60
        /\ \E i \in HandledOf(c) : handled[i].outcome = "applied"
        /\ items[1].stock = 40

\* ----------------------------------------------------------------------- C7
\* positions of the inserts for item id
CommitsFor(id) == {i \in DOMAIN commitLog : commitLog[i].order.item_id = id}
\* sum of the quantities of the orders inserted for item id among the inserts
\* at the positions ps
RECURSIVE CommittedQty(_)
CommittedQty(ps) ==
    IF ps = {} THEN 0
    ELSE LET i == CHOOSE x \in ps : TRUE
         IN  req[commitLog[i].call].quantity + CommittedQty(ps \ {i})
Oversold(id) == CommittedQty(CommitsFor(id)) > InitialStock(id)

\* C7: the committed quantities of an item can exceed its stock; C7_Witness
\* is the race: two calls pass the test against the same stock of 100 before
\* any decrement is applied and both insert an order of 60.  Overselling
\* never comes from an order that failed its test: whenever an item is
\* oversold, at least two orders were inserted for it, and each passed the
\* test against a stock value the catalog returned, which never exceeded the
\* initial stock.
C7_OversellOnlyByRace ==
    \A id \in CatalogItemIds : Oversold(id) =>
        /\ Cardinality(CommitsFor(id)) >= 2
        /\ \A i \in CommitsFor(id) :
              LET c == commitLog[i].call
              IN  /\ resp[c].ok
                  /\ req[c].quantity <= resp[c].stock
                  /\ resp[c].stock <= InitialStock(id)

\* stock 100, two orders of 60 inserted, both checked against 100, no
\* decrement applied yet
C7_Witness ==
    \E c, d \in Calls :
        /\ c # d
        /\ CommitsOf(c) # {} /\ CommitsOf(d) # {}
        /\ req[c].item_id = 1 /\ req[d].item_id = 1
        /\ req[c].quantity = 60 /\ req[d].quantity = 60
        /\ resp[c].stock = 100 /\ resp[d].stock = 100
        /\ handled = <<>> /\ items[1].stock = 100
        /\ Oversold(1)

\* ----------------------------------------------------------------------- C8
\* positions of the handled events of item id
HandledFor(id) == {i \in DOMAIN handled : handled[i].payload.item_id = id}
\* calls c and d both ordered 60 of item 1, both inserted, and their two
\* events are the events of item 1 the catalog has handled
TwoOrdersOfSixty(c, d) ==
    /\ c # d
    /\ req[c].item_id = 1 /\ req[d].item_id = 1
    /\ req[c].quantity = 60 /\ req[d].quantity = 60
    /\ CommitsOf(c) # {} /\ CommitsOf(d) # {}
    /\ HandledOf(c) # {} /\ HandledOf(d) # {}
    /\ HandledFor(1) = HandledOf(c) \cup HandledOf(d)

\* C8: stock 100 for item 1, two orders of 60 both inserted and both events
\* handled by the catalog: both calls were checked against 100, the stock is
\* 40, the event handled first was applied and the other one rejected.
C8_TwoOrdersOfSixtyLeaveForty ==
    \A c, d \in Calls : TwoOrdersOfSixty(c, d) =>
        /\ resp[c].stock = 100 /\ resp[d].stock = 100
        /\ items[1].stock = 40
        /\ Cardinality(HandledFor(1)) = 2
        /\ \A i, j \in HandledFor(1) : i < j =>
              /\ handled[i].outcome = "applied"
              /\ handled[j].outcome = "rejected"

\* the scenario with the event of the call that arrived later handled first
C8_Witness ==
    \E c, d \in Calls :
        /\ c < d /\ TwoOrdersOfSixty(c, d)
        /\ \A i \in HandledOf(d), j \in HandledOf(c) : i < j
        /\ items[1].stock = 40

\* ----------------------------------------------------------------------- C9
\* the callback is about to receive an event of a known item whose quantity
\* exceeds the item's stock
TooLargeNext ==
    /\ rxAlive /\ ~lagged /\ chan # <<>>
    /\ Head(chan).event.payload.item_id \in DOMAIN items
    /\ Head(chan).event.payload.quantity
          > items[Head(chan).event.payload.item_id].stock

\* C9: the callback's turn on an event whose quantity exceeds the item's stock
\* changes no item, sends nothing to the broker and touches nothing of the
\* order side, records the event as rejected and leaves the callback
\* running; every event handled with a quantity above the stock of its item
\* was rejected.
C9_TooLargeDecrementRejected ==
    /\ [][(TooLargeNext /\ handled' # handled) =>
              /\ items' = items
              /\ rxAlive'
              /\ chan' = Tail(chan)
              /\ Len(handled') = Len(handled) + 1
              /\ handled'[Len(handled')].outcome = "rejected"
              /\ UNCHANGED <<wire, pumpAlive, latest_order_id, orders, commitLog,
                             pc, result, mutex>>]_vars
    /\ [](\A i \in DOMAIN handled :
              (handled[i].payload.item_id \in CatalogItemIds
                  /\ handled[i].payload.quantity > handled[i].before)
              => handled[i].outcome = "rejected")

\* after a rejected event the callback has applied a later one
C9_Witness ==
    \E i, j \in DOMAIN handled :
        /\ i < j
        /\ handled[i].outcome = "rejected"
        /\ handled[j].outcome = "applied" /\ handled[j].payload.quantity > 0
        /\ handled[i].payload.item_id = handled[j].payload.item_id

\* ---------------------------------------------------------------------- C10
\* C10: whatever events arrive, the store keeps its items and the stock of
\* each stays within 0 .. its initial stock (never below zero, never wrapped).
C10_StockNeverNegative ==
    /\ DOMAIN items = CatalogItemIds
    /\ \A id \in CatalogItemIds : items[id].stock \in 0..InitialStock(id)

\* an event asking for more than an emptied stock was handled
C10_Witness ==
    \E i \in DOMAIN handled :
        /\ handled[i].outcome = "rejected"
        /\ handled[i].before = 0
        /\ handled[i].payload.quantity > 0
        /\ items[handled[i].payload.item_id].stock = 0

\* ---------------------------------------------------- listener claims
\* the values recv handed to receiver r, in order
RECURSIVE OkValues(_)
OkValues(results) ==
    IF results = <<>> THEN <<>>
    ELSE IF Head(results).ok THEN <<Head(results).value>> \o OkValues(Tail(results))
    ELSE OkValues(Tail(results))
\* receiver r has never lost a value
NeverLagged(r) ==
    /\ missed[r] = 0
    /\ \A i \in DOMAIN received[r] : received[r][i].ok
\* the values broadcast since receiver r was taken
SentSince(r) == SubSeq(sentLog, subscribedAt[r] + 1, Len(sentLog))
\* number of times v occurs in the sequence q
Occurrences(q, v) == Cardinality({i \in DOMAIN q : q[i] = v})
\* v is at position i of sentLog
SentAt(v) == CHOOSE i \in DOMAIN sentLog : sentLog[i] = v

\* ---------------------------------------------------------------------- C11
\* C11: every receiver that exists and has never lagged has got, or has
\* waiting unread, exactly the values broadcast since it was taken, each of
\* them once and in the order of the broadcasts; so a value broadcast while N
\* such receivers exist is delivered N times, once to each.  No receiver,
\* dropped ones included, is handed a value twice.
C11_FanOut ==
    /\ \A r \in receivers : NeverLagged(r) =>
          OkValues(received[r]) \o unread[r] = SentSince(r)
    /\ \A r \in Receivers : \A v \in 1..MaxDeliveries :
          Occurrences(OkValues(received[r]) \o unread[r], v) <= 1

\* two receivers have each been handed the same two values
C11_Witness ==
    \E r, q \in receivers :
        /\ r # q
        /\ Len(sentLog) = 2
        /\ OkValues(received[r]) = sentLog
        /\ OkValues(received[q]) = sentLog

\* ---------------------------------------------------------------------- C12
\* the pump has consumed a message whose payload did not parse
MalformedConsumed == \E i \in DOMAIN consumed : consumed[i].kind = "malformed"
\* the values receiver r has read or has waiting
ValuesAt(r) == OkValues(received[r]) \o unread[r]

\* C12: the malformed message is the last thing the pump consumes: the pump
\* task is gone, the malformed message was broadcast to nobody, every value
\* any receiver has read or has waiting was delivered by the broker before
\* it, and from then on the pump takes nothing from the broker, broadcasts
\* nothing, and no receiver's queue gains a value, whatever the broker
\* delivers and whoever subscribes afterwards.
C12_DeserializationFatal ==
    /\ [](\A i \in DOMAIN consumed : consumed[i].kind = "malformed" =>
              /\ i = Len(consumed)
              /\ pumpState = "panicked"
              /\ consumed[i].value \notin {sentLog[j] : j \in DOMAIN sentLog}
              /\ \A r \in Receivers : \A j \in DOMAIN ValuesAt(r) :
                    ValuesAt(r)[j] < consumed[i].value)
    /\ [][MalformedConsumed =>
              /\ UNCHANGED <<pumpState, sentLog, consumed>>
              /\ Len(consumerIn') >= Len(consumerIn)
              /\ \A r \in Receivers : Len(unread'[r]) <= Len(unread[r])]_vars

\* the pump died on a malformed message while a receiver that had read an
\* earlier value waits with nothing unread and a well-formed message is
\* waiting at the broker
C12_Witness ==
    /\ MalformedConsumed
    /\ \E r \in receivers : unread[r] = <<>> /\ OkValues(received[r]) # <<>>
    /\ \E i \in DOMAIN consumerIn : consumerIn[i].kind = "json"

\* ---------------------------------------------------------------------- C13
\* C13 as claimed: whenever a receiver exists, the pump is running or has
\* ended on a payload that did not parse.
C13_PumpRunsUntilMalformed ==
    \A r \in receivers : pumpState \in {"running", "panicked"}

\* the pump's turn on a parsed message while no receiver exists
SendToNobody ==
    /\ pumpState = "running" /\ consumerIn # <<>>
    /\ Head(consumerIn).kind = "json"
    /\ receivers = {}

\* C13, amended: the pump ends in two ways, on a payload that does not parse
\* and on a parsed message it consumes while no receiver exists (the send
\* fails and the loop is left); the latter happens in exactly that case.  As
\* long as neither has happened, each parsed message the pump consumes is
\* broadcast and joins the queue of every receiver that exists, however late
\* the receiver was taken; once the pump has ended, a receiver taken
\* afterwards gets nothing.
C13_LateReceiverServedWhilePumpRuns ==
    /\ [][/\ (pumpState = "running" /\ pumpState' = "stopped") => SendToNobody
          /\ (SendToNobody /\ consumed' # consumed) => pumpState' = "stopped"
          /\ (pumpState = "running" /\ consumed' # consumed
                 /\ Head(consumerIn).kind = "json" /\ receivers # {}) =>
                /\ pumpState' = "running"
                /\ sentLog' = Append(sentLog, Head(consumerIn).value)
                /\ \A r \in receivers :
                      unread'[r][Len(unread'[r])] = Head(consumerIn).value]_vars
    /\ [](\A r \in Receivers :
              (pumpState \in {"stopped", "panicked"}
                  /\ subscribedAt[r] = Len(sentLog)) => ValuesAt(r) = <<>>)

\* a receiver taken after two values had been broadcast has read the third
C13_Witness ==
    \E r \in receivers :
        /\ subscribedAt[r] = 2
        /\ OkValues(received[r]) = <<3>>
        /\ pumpState = "running"

\* ---------------------------------------------------------------------- C14
\* C14: a receiver never reads and never has waiting a value that was
\* broadcast before it was taken: every value it gets stands in sentLog after
\* the position sentLog had reached at its get_receiver, and right after
\* get_receiver its queue is empty.
C14_NoReplay ==
    /\ [](\A r \in Receivers : \A j \in DOMAIN ValuesAt(r) :
              /\ \E i \in DOMAIN sentLog : sentLog[i] = ValuesAt(r)[j]
              /\ SentAt(ValuesAt(r)[j]) > subscribedAt[r])
    /\ [][\A r \in Receivers :
              (subscribedAt[r] = -1 /\ subscribedAt'[r] # -1) =>
                  /\ subscribedAt'[r] = Len(sentLog)
                  /\ unread'[r] = <<>>]_vars

\* of two values broadcast, a receiver taken between them has read the
\* second and only the second, while an earlier receiver has read both
C14_Witness ==
    \E r, q \in receivers :
        /\ Len(sentLog) = 2
        /\ subscribedAt[q] = 0 /\ OkValues(received[q]) = sentLog
        /\ subscribedAt[r] = 1 /\ OkValues(received[r]) = <<sentLog[2]>>
        /\ unread[r] = <<>>

\* ---------------------------------------------------------------------- C15
\* receiver r was told by recv that it had lost values
ToldLagged(r) == \E i \in DOMAIN received[r] : ~received[r][i].ok

\* C15: the pump's turn never depends on the receivers' queues: while the
\* pump runs and the broker has something, the turn can be taken.  No queue
\* holds more than the channel's capacity; a broadcast to a receiver whose
\* queue is at capacity drops that receiver's oldest unread value and counts
\* it as lost, and leaves the other receivers' queues whole, each gaining the
\* new value; the pump goes on, and a receiver that never lagged has every
\* value broadcast since it was taken.
C15_LossyConsumer ==
    /\ [](/\ (pumpState = "running" /\ consumerIn # <<>>) => ENABLED ListenerPump
          /\ \A r \in Receivers : Len(unread[r]) <= chanCapacity
          /\ \A r \in receivers : NeverLagged(r) => ValuesAt(r) = SentSince(r))
    /\ [][sentLog' # sentLog =>
              /\ pumpState' = "running"
              /\ consumerIn' = Tail(consumerIn)
              /\ \A r \in receivers :
                    IF Len(unread[r]) = chanCapacity
                    THEN /\ unread'[r] = Append(Tail(unread[r]), Head(consumerIn).value)
                         /\ missed'[r] = missed[r] + 1
                    ELSE /\ unread'[r] = Append(unread[r], Head(consumerIn).value)
                         /\ missed'[r] = missed[r]]_vars

\* capacity 2, three values broadcast: one receiver read none in time, was
\* told it lost one and has the last two; the other read all three
C15_Witness ==
    \E r, q \in receivers :
        /\ chanCapacity = 2 /\ Len(sentLog) = 3
        /\ received[r] = <<[ok |-> FALSE, value |-> 1]>>
        /\ unread[r] = <<sentLog[2], sentLog[3]>>
        /\ NeverLagged(q) /\ OkValues(received[q]) = sentLog

\* ---------------------------------------------------------------------- C16
\* the pump has consumed an error of the broker consumer
ErrorConsumed == \E i \in DOMAIN consumed : consumed[i].kind = "error"

\* C16: the pump's turn on an error of the consumer leaves the pump running
\* and changes no receiver's queue and not the broadcast log: the error is
\* logged and never broadcast.  A parsed message consumed after an error,
\* while a receiver exists, is broadcast and joins every receiver's queue as
\* if no error had occurred.
C16_TransportErrorSurvived ==
    /\ [][(consumed' # consumed /\ Head(consumerIn).kind = "error") =>
              /\ pumpState' = "running"
              /\ consumerIn' = Tail(consumerIn)
              /\ consumed'[Len(consumed')].outcome = "logged"
              /\ UNCHANGED <<sentLog, unread, missed, receivers>>]_vars
    /\ [][(ErrorConsumed /\ consumed' # consumed
              /\ Head(consumerIn).kind = "json" /\ receivers # {}) =>
              /\ sentLog' = Append(sentLog, Head(consumerIn).value)
              /\ \A r \in receivers :
                    unread'[r][Len(unread'[r])] = Head(consumerIn).value]_vars
    /\ [](\A i \in DOMAIN consumed : consumed[i].kind = "error" =>
              consumed[i].value \notin {sentLog[j] : j \in DOMAIN sentLog})

\* the pump consumed an error and then a parsed message, which a receiver
\* has read
C16_Witness ==
    \E i, j \in DOMAIN consumed :
        /\ i < j
        /\ consumed[i].kind = "error"
        /\ consumed[j].kind = "json" /\ consumed[j].outcome = "broadcast"
        /\ \E r \in receivers :
              \E n \in DOMAIN received[r] :
                  received[r][n] = [ok |-> TRUE, value |-> consumed[j].value]

\* ---------------------------------------------------------------------- C17
\* C17: the values a receiver has read, followed by those it has waiting, are
\* in the order of their broadcasts (a subsequence of sentLog), whether or not
\* the receiver lost values in between; and a recv of one receiver changes
\* nothing of any other receiver.
C17_ReceiverOrder ==
    /\ [](\A r \in Receivers : \A i, j \in DOMAIN ValuesAt(r) :
              i < j => SentAt(ValuesAt(r)[i]) < SentAt(ValuesAt(r)[j]))
    /\ [][\A r \in Receivers : received'[r] # received[r] =>
              \A q \in Receivers \ {r} :
                  /\ unread'[q] = unread[q]
                  /\ received'[q] = received[q]
                  /\ missed'[q] = missed[q]]_vars

\* three values broadcast: one receiver has read all three in order, the
\* other has read the first only and has the rest waiting
C17_Witness ==
    \E r, q \in receivers :
        /\ Len(sentLog) = 3
        /\ OkValues(received[r]) = sentLog
        /\ OkValues(received[q]) = <<sentLog[1]>>
        /\ unread[q] = <<sentLog[2], sentLog[3]>>

\* ---------------------------------------------------------------------- C18
\* the calls whose events are in the sequence q of messages
CallsIn(q) == [i \in DOMAIN q |-> q[i].call]
\* the calls whose events name item id, oldest first: handled by the callback,
\* waiting in the channel, waiting in the broker's partition of the key
Pipeline(id) ==
    CallsIn(SelectSeq(handled, LAMBDA h : h.payload.item_id = id))
        \o CallsIn(SelectSeq(chan, LAMBDA m : m.event.payload.item_id = id))
        \o CallsIn(wire[KeyOf(id)])
\* call c inserted its order, and so published, before call d
CommittedBefore(c, d) ==
    \E i \in CommitsOf(c), j \in CommitsOf(d) : i < j

\* C18: the events of one item keep their order from the publish to the
\* callback.  Every stage is first in, first out: a publish adds its event at
\* the end of the partition of its key, the pump moves the head of a
\* partition to the end of the channel, the callback handles the head of the
\* channel.  So of two orders inserted for the same item, the event of the
\* one inserted (and so published) first stands ahead of the other's in the
\* item's line of events (handled, in the channel, at the broker) at every
\* moment, and when both are handled, the one published first was handled
\* first.
C18_SameItemInPublishOrder ==
    /\ [](\A i, j \in DOMAIN commitLog :
              (i < j /\ commitLog[i].order.item_id = commitLog[j].order.item_id) =>
                  LET first == commitLog[i].call
                      second == commitLog[j].call
                      line == Pipeline(commitLog[i].order.item_id)
                  IN  /\ \A p, q \in DOMAIN line :
                            (line[p] = first /\ line[q] = second) => p < q
                      /\ \A p \in HandledOf(first), q \in HandledOf(second) : p < q)
    /\ [][/\ handled' # handled =>
                /\ chan # <<>> /\ chan' = Tail(chan)
                /\ Len(handled') = Len(handled) + 1
                /\ SubSeq(handled', 1, Len(handled)) = handled
                /\ handled'[Len(handled')].call = Head(chan).call
          /\ (chan' # chan /\ handled' = handled) =>
                \E k \in Keys :
                    /\ wire[k] # <<>> /\ wire'[k] = Tail(wire[k])
                    /\ chan' = Append(chan, Head(wire[k]))
          /\ (wire' # wire /\ chan' = chan) =>
                \E c \in Calls :
                    /\ pc[c] = "publish"
                    /\ wire' = [wire EXCEPT ![ToString(req[c].item_id)] =
                                    Append(@, OrderPlacedMessage(c, req[c]))]]_vars

\* two events of item 1, published by the later arrival first, were handled
\* in that order; C18_OtherItemsWitness is the other half
C18_Witness ==
    /\ Len(handled) = 2
    /\ handled[1].call = 2 /\ handled[2].call = 1
    /\ handled[1].payload.item_id = 1 /\ handled[2].payload.item_id = 1
    /\ CommittedBefore(2, 1)

\* events of different items: the one published second was handled while the
\* one published first is still at the broker
C18_OtherItemsWitness ==
    \E c, d \in Calls :
        /\ req[c].item_id # req[d].item_id
        /\ CommittedBefore(c, d)
        /\ pubOutcome[c] = "sent" /\ WireOf(c) # {}
        /\ HandledOf(d) # {}

\* ---------------------------------------------------------------------- C19
\* the calls of all events there are: handled, in the channel, at the broker
RECURSIVE WireCalls(_)
WireCalls(ks) ==
    IF ks = {} THEN <<>>
    ELSE LET k == CHOOSE x \in ks : TRUE
         IN  CallsIn(wire[k]) \o WireCalls(ks \ {k})
EventCalls == CallsIn(handled) \o CallsIn(chan) \o WireCalls(Keys)

\* the steps of place_order, as places before and after
StepOrder ==
    {<<"idle", "query">>, <<"query", "resp">>, <<"resp", "done">>,
     <<"resp", "lock">>, <<"lock", "incr">>, <<"incr", "insert">>,
     <<"insert", "publish">>, <<"publish", "await">>, <<"await", "done">>}

\* C19: a call moves through place_order in one order only: the query, its
\* answer, the test, then the lock, the insert, the publish and the return,
\* or from the test straight to the return.  It inserts at most one order,
\* and only after its own stock query returned a stock of at least the
\* requested quantity; it calls broadcast_event only with its order already
\* inserted; up to the insert nothing of the call is inserted or published,
\* and when the call stands at the publish its order is inserted and nothing
\* is published yet.  Every event there is belongs to a call whose publish
\* the broker accepted, and no two events belong to the same call.
C19_CheckCommitPublish ==
    /\ [][\A c \in Calls : pc'[c] # pc[c] => <<pc[c], pc'[c]>> \in StepOrder]_vars
    /\ [](\A c \in Calls :
              LET commits == Cardinality(CommitsOf(c))
              IN  /\ commits <= 1
                  /\ commits = 1 =>
                        /\ resp[c].ok /\ resp[c].stock >= req[c].quantity
                        /\ pc[c] \in {"publish", "await", "done"}
                  /\ pubOutcome[c] # "none" =>
                        /\ commits = 1
                        /\ pc[c] \in {"await", "done"}
                  /\ pc[c] \in {"idle", "query", "resp", "lock", "incr", "insert"} =>
                        commits = 0 /\ pubOutcome[c] = "none"
                  /\ pc[c] = "publish" => commits = 1 /\ pubOutcome[c] = "none")
    /\ [](LET calls == EventCalls
          IN  \A i \in DOMAIN calls :
                  /\ calls[i] \in Calls
                  /\ pubOutcome[calls[i]] = "sent"
                  /\ \A j \in DOMAIN calls : calls[j] = calls[i] => j = i)

\* a call went through all three steps for a positive quantity and its event
\* was handled, while another call was turned away at the check
C19_Witness ==
    \E c, d \in Calls :
        /\ pc[c] = "done" /\ req[c].quantity > 0
        /\ CommitsOf(c) # {} /\ pubOutcome[c] = "sent" /\ HandledOf(c) # {}
        /\ pc[d] = "done" /\ result[d] = "ItemOutOfStock" /\ CommitsOf(d) = {}

\* ---------------------------------------------------------------------- C20
\* the event place_order is to publish for the request r
ExpectedEvent(r) ==
    [event_type |-> "order_placed",
     payload |-> [item_id |-> r.item_id, quantity |-> r.quantity],
     source |-> "Order", correlation_id |-> "None", metadata |-> "None"]

\* C20: every message at the broker comes from a call, lies under the key
\* that is that call's item_id as text and is a JSON event of type
\* order_placed from source Order without correlation id and metadata, whose
\* payload holds the request's item_id and quantity; the same event is what
\* the channel holds, and its payload is what the callback handled.  The
\* publish the broker accepts adds one message to the partition of that key
\* and leaves the other partitions as they are.
C20_EventCarriesRequest ==
    /\ [](/\ \A k \in Keys : \A i \in DOMAIN wire[k] :
                /\ wire[k][i].call \in Calls
                /\ k = ToString(req[wire[k][i].call].item_id)
                /\ wire[k][i].kind = "json"
                /\ wire[k][i].event = ExpectedEvent(req[wire[k][i].call])
          /\ \A i \in DOMAIN chan :
                /\ chan[i].call \in Calls
                /\ chan[i].event = ExpectedEvent(req[chan[i].call])
          /\ \A i \in DOMAIN handled :
                /\ handled[i].call \in Calls
                /\ handled[i].payload = ExpectedEvent(req[handled[i].call]).payload)
    /\ [][\A c \in Calls : (pubOutcome[c] = "none" /\ pubOutcome'[c] = "sent") =>
              \A k \in Keys :
                  IF k = ToString(req[c].item_id)
                  THEN /\ Len(wire'[k]) = Len(wire[k]) + 1
                       /\ SubSeq(wire'[k], 1, Len(wire[k])) = wire[k]
                       /\ wire'[k][Len(wire'[k])].call = c
                  ELSE wire'[k] = wire[k]]_vars

\* the event of an order of 60 of item 1 lies at the broker under the key "1"
\* and the event of an order of 1 of item 5 under the key "5"
C20_Witness ==
    \E c, d \in Calls :
        /\ req[c].item_id = 1 /\ req[c].quantity = 60
        /\ wire["1"] # <<>> /\ wire["1"][1].call = c
        /\ wire["1"][1].event.payload = [item_id |-> 1, quantity |-> 60]
        /\ req[d].item_id = 5 /\ req[d].quantity = 1
        /\ wire["5"] # <<>> /\ wire["5"][1].call = d
        /\ wire["5"][1].event.payload = [item_id |-> 5, quantity |-> 1]

\* ---------------------------------------------------------------------- C21
\* C21: each broadcast_event call makes at most one send attempt to the
\* broker: a call whose serialisation failed made none and left nothing on
\* the broker, a call whose send failed made exactly one, no call has more
\* events on the way than it made attempts, and the outcome is there as soon
\* as the call has left the publish step (the error is returned at once).
C21_AtMostOneSendAttempt ==
    [](\A c \in Calls :
           /\ sendAttempts[c] <= 1
           /\ EventCount(c) <= sendAttempts[c]
           /\ pubOutcome[c] = "serialization" =>
                 sendAttempts[c] = 0 /\ EventCount(c) = 0
           /\ pubOutcome[c] = "transport" => sendAttempts[c] = 1
           /\ pubOutcome[c] # "none" =>
                 BroadcastEventResult(pubOutcome[c]).returned =
                     (IF pubOutcome[c] = "sent" THEN "Ok" ELSE "Err")
           /\ (pubOutcome[c] # "none") <=> (pc[c] \in {"await", "done"} /\ CommitsOf(c) # {}))

\* one call failed to serialise and another failed to send, and both returned
C21_Witness ==
    \E c, d \in Calls :
        /\ pc[c] = "done" /\ pubOutcome[c] = "serialization" /\ sendAttempts[c] = 0
        /\ pc[d] = "done" /\ pubOutcome[d] = "transport" /\ sendAttempts[d] = 1

\* ---------------------------------------------------------------------- C22
\* C22: the stock store is mutated only by the catalog callback handling an
\* order_placed event: a step that changes the store is a turn of the
\* callback that applied one event and moves no place_order call, and every
\* step of a place_order call (the stock query and its answer, the reject,
\* the commit, the publish, the return) leaves every item as it was.
C22_OnlyCallbackMutatesStock ==
    [][/\ items' # items =>
             /\ Len(handled') = Len(handled) + 1
             /\ handled'[Len(handled')].outcome = "applied"
             /\ chan' = Tail(chan)
             /\ pc' = pc /\ resp' = resp /\ result' = result
             /\ orders' = orders /\ wire' = wire
       /\ (\E c \in Calls : pc'[c] # pc[c] \/ resp'[c] # resp[c]) => items' = items
       /\ DOMAIN items' = DOMAIN items]_vars

\* one call was answered and rejected, another was answered, committed and
\* published, and only the handling of its event changed the stock
C22_Witness ==
    \E c, d \in Calls :
        /\ result[c] = "ItemOutOfStock"
        /\ pc[d] = "done" /\ req[d].quantity > 0
        /\ \E i \in HandledOf(d) : handled[i].outcome = "applied"
        /\ items[req[d].item_id].stock = InitialStock(req[d].item_id) - req[d].quantity

\* ---------------------------------------------------------------------- C23
\* C23: order records are created once and never mutated or deleted: every
\* order that was ever inserted is in the order store under its order_id with
\* the contents it was inserted with, and the store holds nothing else, so
\* the set of stored orders only grows.
C23_OrdersKeptAsInserted ==
    [](/\ \A i \in DOMAIN commitLog :
             /\ commitLog[i].order.order_id \in DOMAIN orders
             /\ orders[commitLog[i].order.order_id] = commitLog[i].order
       /\ \A k \in DOMAIN orders :
             \E i \in DOMAIN commitLog : commitLog[i].order.order_id = k
       /\ \A k \in DOMAIN orders : orders[k].order_id = k)

\* a second order was inserted after the first, every call has returned, and
\* the first order is still there as it was inserted
C23_Witness ==
    /\ Len(commitLog) = 2
    /\ \A c \in Calls : pc[c] = "done"
    /\ commitLog[1].order.order_id \in DOMAIN orders
    /\ orders[commitLog[1].order.order_id] = commitLog[1].order
    /\ commitLog[1].order # commitLog[2].order

\* ---------------------------------------------------------------------- C24
\* the step is the catalog answering the stock query of call c
StockQueryAnswered(c) ==
    /\ pc[c] = "query" /\ pc'[c] = "resp"
    /\ resp'[c].error \notin {"RequestError", "Standard"}

\* C24: get_stock(item_id) returns the item's current stock when the item is
\* in the store and ItemNotFoundError when it is not; the HTTP layer renders
\* the stock as its digits and the error as the 'does not exist' message,
\* which carries no stock value (the client finds no number in it); the
\* lookup leaves the store as it was.
C24_GetStockLookup ==
    [][\A c \in Calls : StockQueryAnswered(c) =>
          LET id == req[c].item_id
              s == ServiceGetStock(items, id)
              a == ApiGetStock(items, id)
          IN  /\ items' = items
              /\ id \in DOMAIN items =>
                    /\ s = [ok |-> TRUE, stock |-> items[id].stock]
                    /\ a.body = ToString(items[id].stock)
                    /\ resp'[c] = [ok |-> TRUE, stock |-> items[id].stock,
                                   error |-> "none"]
              /\ id \notin DOMAIN items =>
                    /\ ~s.ok
                    /\ a.body = "This item does not exist."
                    /\ ~ParseU32(a.body).ok
                    /\ ~resp'[c].ok /\ resp'[c].error = "JsonError"]_vars

\* one query was answered with the stock of a known item, another with the
\* message for an unknown item
C24_Witness ==
    \E c, d \in Calls :
        /\ req[c].item_id = 5 /\ resp[c].ok /\ resp[c].stock = items[5].stock
        /\ req[d].item_id = 999 /\ ~resp[d].ok /\ resp[d].error = "JsonError"

\* ---------------------------------------------------------------------- C25
\* C25: after any sequence of order_placed events, get_items returns exactly
\* the items whose current stock is greater than zero: every item with stock
\* above 0 is listed once, under its id and name, an item whose stock has
\* been decremented to 0 is omitted, and the call leaves the store as it was.
C25_GetItemsListsStockedItems ==
    /\ [](\A i \in DOMAIN items :
             items[i].stock > 0 <=> (\E d \in ServiceGetItems(items) : d.id = i))
    /\ [][catalogReply' # catalogReply =>
             /\ items' = items
             /\ catalogReply'.called
             /\ \A i \in DOMAIN items :
                   items[i].stock > 0 <=> (\E d \in catalogReply'.items : d.id = i)
             /\ \A d \in catalogReply'.items :
                   /\ d.id \in DOMAIN items
                   /\ d = [id |-> d.id, name |-> items[d.id].name]]_vars

\* the stock of the cap was decremented from 1 to 0 by an event, and the
\* get_items call made after that lists the other four items and not the cap
C25_Witness ==
    /\ \E i \in DOMAIN handled :
          handled[i].outcome = "applied" /\ handled[i].payload = [item_id |-> 5, quantity |-> 1]
    /\ items[5].stock = 0
    /\ catalogReply.called
    /\ {d.id : d \in catalogReply.items} = {1, 2, 3, 4}

\* ---------------------------------------------------------------------- C26
\* C26, as claimed: every order committed by the coordinator has a positive
\* quantity; place_order neither commits an order nor publishes an event for
\* a request whose quantity is 0.
C26_CommittedQuantityPositive ==
    \A c \in Calls :
        (CommitsOf(c) # {} \/ pubOutcome[c] # "none" \/ EventCount(c) > 0) =>
            req[c].quantity > 0

\* ---------------------------------------------------------------------- C27
\* creating the consumer or subscribing to the topics failed
ConsumerFailed == consumerCreated \in {"create", "subscribe"}

\* C27: if creating the broker consumer or subscribing to the topics fails,
\* create_event_listener returns an error, no channel is created and no pump
\* task is started, nothing is ever consumed or broadcast, and no receiver is
\* handed out, so no task of the caller (in the catalog service: the stock
\* update) ever receives anything.
C27_ListenerCreationFailure ==
    ConsumerFailed =>
        /\ CreateEventListenerResult(consumerCreated) = "Err"
        /\ pumpState = "none"
        /\ chanCapacity = 0
        /\ consumed = <<>> /\ sentLog = <<>>
        /\ receivers = {}
        /\ \A r \in Receivers :
              subscribedAt[r] = -1 /\ unread[r] = <<>> /\ received[r] = <<>>

\* the subscription to the topics failed
C27_Witness ==
    /\ consumerCreated = "subscribe"
    /\ pumpState = "none"
    /\ receivers = {}

\* ---------------------------------------------------------------------- C28
\* the fields of an envelope other than its timestamp
InputFields == {"event_type", "payload", "source", "correlation_id", "metadata"}

\* C28: idempotent construction: two envelopes built by Event::new from
\* identical (event_type, payload, source, correlation_id, metadata) are
\* equal in every field except possibly timestamp, and construction copies
\* each input into the field of the same name unchanged.
C28_IdempotentConstruction ==
    /\ \A i, j \in DOMAIN built :
          built[i].inputs = built[j].inputs =>
              \A f \in InputFields : built[i].event[f] = built[j].event[f]
    /\ \A i \in DOMAIN built :
          /\ DOMAIN built[i].event = InputFields \cup {"timestamp"}
          /\ \A f \in InputFields : built[i].event[f] = built[i].inputs[f]

\* two envelopes were built from the same inputs at different times: they
\* differ, and only in the timestamp
C28_Witness ==
    \E i, j \in DOMAIN built :
        /\ built[i].inputs = built[j].inputs
        /\ built[i].event.timestamp # built[j].event.timestamp
        /\ built[i].event # built[j].event

\* ---------------------------------------------------------------------- C29
\* a call is between the two statements of add_order; it holds the mutex and
\* &mut self, so no other code sees the store in that state
InsideAddOrder == \E c \in Calls : pc[c] = "insert"

UnknownItemHandled ==
    /\ Len(handled') = Len(handled) + 1
    /\ handled'[Len(handled')].payload.item_id \notin DOMAIN items

\* C30: an order_placed event whose item_id is not in the stock store leaves
\* every stock record unchanged, creates no record and does not stop the
\* callback: the callback still owns its receiver afterwards and takes the
\* next event of the channel.
C30_UnknownItemIgnored ==
    /\ [](/\ DOMAIN items = CatalogItemIds
          /\ \A i \in DOMAIN handled :
                handled[i].outcome = "unknown"
                    <=> handled[i].payload.item_id \notin CatalogItemIds
          /\ (handled # <<>> /\ handled[Len(handled)].outcome = "unknown") =>
                /\ rxAlive
                /\ chan # <<>> => ENABLED CallbackRecv)
    /\ [][UnknownItemHandled =>
             /\ items' = items
             /\ rxAlive'
             /\ chan' = Tail(chan)
             /\ handled'[Len(handled')].outcome = "unknown"]_vars

\* an event for the unknown item 999 was handled, and after it an event that
\* took 60 off the stock of item 1; nothing else changed
C30_Witness ==
    \E i, j \in DOMAIN handled :
        /\ i < j
        /\ handled[i].payload.item_id = 999 /\ handled[i].outcome = "unknown"
        /\ handled[j].payload = [item_id |-> 1, quantity |-> 60]
        /\ handled[j].outcome = "applied"
        /\ items[1].stock = 40
        /\ \A id \in CatalogItemIds \ {1} : items[id].stock = InitialStock(id)

\* ---------------------------------------------------------------------- C39
\* the step is the pump's turn on a message that has no payload
NoPayloadTurn ==
    /\ consumed' # consumed
    /\ Head(consumerIn).kind = "nopayload"

\* C39: a broker message that has no payload is skipped: the pump's turn on
\* it takes the message off the broker, broadcasts nothing (the broadcast log
\* and every receiver's queue stay as they are), is recorded as skipped and
\* not as a deserialisation failure, and leaves the pump running, so that the
\* next message can be taken.
C39_NoPayloadSkipped ==
    /\ [][NoPayloadTurn =>
              /\ consumerIn' = Tail(consumerIn)
              /\ consumed'[Len(consumed')].outcome = "skipped"
              /\ pumpState' = "running"
              /\ UNCHANGED <<sentLog, unread, missed, receivers, received>>]_vars
    /\ [](\A i \in DOMAIN consumed : consumed[i].kind = "nopayload" =>
              /\ consumed[i].outcome = "skipped"
              /\ consumed[i].value \notin {sentLog[j] : j \in DOMAIN sentLog}
              /\ (i = Len(consumed) /\ consumerIn # <<>>) => ENABLED ListenerPump)

\* the pump passed over a message without payload and then broadcast the
\* next message, which a receiver has read
C39_Witness ==
    \E i \in DOMAIN consumed :
        /\ i < Len(consumed)
        /\ consumed[i].kind = "nopayload"
        /\ consumed[i + 1].kind = "json" /\ consumed[i + 1].outcome = "broadcast"
        /\ \E r \in receivers :
              OkValues(received[r]) = <<consumed[i + 1].value>>

\* ---------------------------------------------------------------------- C37
\* the pump has ended while the callback still owns its receiver (the send
\* cannot have failed, so the pump ended on a payload that did not parse)
PumpDiedFirst == ~pumpAlive /\ rxAlive

\* C37: the end of the pump on a malformed message discards nothing that was
\* broadcast: the step that ends the pump leaves the channel, the receiver
\* and the store as they are; afterwards the receiver's recv still returns
\* the unread events, oldest first, and each is handled as it would have
\* been with the pump alive, so the decrements of the events that preceded
\* the malformed message are still applied; the receiver is closed only once
\* the channel is empty.
C37_BroadcastSurvivesPumpEnd ==
    /\ [][(pumpAlive /\ ~pumpAlive' /\ rxAlive) =>
              /\ \E k \in Keys : wire[k] # <<>> /\ Head(wire[k]).kind = "malformed"
                                 /\ wire'[k] = Tail(wire[k])
              /\ UNCHANGED <<chan, lagged, rxAlive, items, handled>>]_vars
    /\ [][(PumpDiedFirst /\ chan # <<>> /\ <<chan, rxAlive, handled>>' # <<chan, rxAlive, handled>>) =>
              /\ rxAlive'
              /\ chan' = Tail(chan)
              /\ Len(handled') = Len(handled) + 1
              /\ handled'[Len(handled')].payload = Head(chan).event.payload
              /\ items' = ApplyEvent(items, Head(chan).event).db]_vars
    /\ []((PumpDiedFirst /\ chan # <<>>) => ENABLED CallbackRecv)
    /\ [](~rxAlive => chan = <<>>)

\* the pump ended on a malformed message with two orders of 60 for item 1
\* broadcast and unread; the callback has since applied the first, the
\* second is still waiting, and a later order is stuck at the broker
C37_Witness ==
    /\ PumpDiedFirst
    /\ Len(handled) = 1 /\ handled[1].outcome = "applied"
    /\ handled[1].payload = [item_id |-> 1, quantity |-> 60]
    /\ items[1].stock = 40
    /\ Len(chan) = 1
    /\ WireCount(Keys) = 1

\* ---------------------------------------------------------------------- C35
\* C35: the callback's receiver lags exactly when a send finds as many unread
\* events as the channel holds; the callback's next recv then fails, which
\* ends the loop without touching the store; once the loop has ended no step
\* applies an event or changes a stock, whatever is broadcast afterwards,
\* while the catalog and the stock of an item can still be read.
C35_LagEndsUpdates ==
    /\ [][(~lagged /\ lagged') =>
              /\ Len(chan) = ChannelCapacity(BufferSize)
              /\ Len(chan') = ChannelCapacity(BufferSize)
              /\ wire' # wire]_vars
    /\ [][(lagged /\ rxAlive /\ wire' = wire) =>
              (~rxAlive' /\ UNCHANGED <<items, handled, chan>>)]_vars
    /\ [][~rxAlive => (~rxAlive' /\ UNCHANGED <<items, handled>>)]_vars
    /\ []((lagged /\ rxAlive) => ENABLED CallbackRecv)
    /\ [](~rxAlive =>
              /\ ENABLED GetCatalog
              /\ \A id \in DOMAIN items :
                    ServiceGetStock(items, id) = [ok |-> TRUE, stock |-> items[id].stock])

\* the receiver lagged before it read anything, the loop ended, and an order
\* sent afterwards met no receiver: the stock of item 1 is still 100
C35_Witness ==
    /\ lagged /\ ~rxAlive /\ ~pumpAlive
    /\ Len(chan) = ChannelCapacity(BufferSize)
    /\ handled = <<>>
    /\ WireCount(Keys) = 0
    /\ items[1].stock = 100

\* ---------------------------------------------------------------------- C34
\* call c asks for an item the catalog store does not hold
UnknownItemCall(c) == pc[c] # "idle" /\ req[c].item_id \notin DOMAIN items

\* C34: a place_order call for an item the catalog does not know never gets a
\* stock value: the catalog's answer to it is the 'does not exist' text, which
\* the client reports as a JsonError; the call returns CatalogNetworkError,
\* never ItemOutOfStock and never Ok, it never takes the mutex, no order is
\* committed for it and no event is published for it.
C34_UnknownItemIsNetworkError ==
    /\ [](\A c \in Calls : UnknownItemCall(c) =>
              /\ pc[c] \in {"query", "resp", "done"}
              /\ ~resp[c].ok
              /\ pc[c] = "done" => result[c] = "CatalogNetworkError"
              /\ pc[c] # "done" => result[c] = "none"
              /\ mutex # c
              /\ CommitsOf(c) = {}
              /\ pubOutcome[c] = "none"
              /\ EventCount(c) = 0)
    /\ [][\A c \in Calls : (UnknownItemCall(c) /\ StockQueryAnswered(c)) =>
              /\ ApiGetStock(items, req[c].item_id).body = "This item does not exist."
              /\ resp'[c].error = "JsonError"]_vars
    /\ [][\A c \in Calls : (UnknownItemCall(c) /\ pc[c] # "done" /\ pc'[c] = "done") =>
              UNCHANGED <<latest_order_id, orders, commitLog, wire>>]_vars

\* the catalog answered the query for item 999 and the call returned
\* CatalogNetworkError, while an order for a known item was committed and
\* published
C34_Witness ==
    \E c, d \in Calls :
        /\ req[c].item_id = 999 /\ pc[c] = "done"
        /\ resp[c].error = "JsonError"
        /\ result[c] = "CatalogNetworkError"
        /\ result[d] = "Ok" /\ CommitsOf(d) # {} /\ pubOutcome[d] = "sent"
        /\ Len(commitLog) = 1

\* ---------------------------------------------------------------------- C33
\* call c is between its lock() and the return of its publish
InSection(c) == pc[c] \in {"incr", "insert", "publish", "await"}

\* C33: the mutex a call took for its insert is given up only by the step in
\* which its publish has returned and place_order returns; no two calls are
\* between lock() and that return together; when an order is inserted, every
\* order inserted before it (the orders with smaller order_ids) belongs to a
\* call whose publish has returned; and a call hands its event to the broker
\* with its own order the latest one inserted, so the events reach the broker
\* in the order of the order_ids.
C33_CommitAndPublishUnderOneHold ==
    /\ [][\A c \in Calls : (mutex = c /\ mutex' # c) =>
              /\ pc[c] = "await" /\ pc'[c] = "done"
              /\ pubOutcome[c] # "none"
              /\ mutex' = 0]_vars
    /\ [](\A c, d \in Calls : (c # d /\ InSection(c)) => ~InSection(d))
    /\ [](\A i, j \in DOMAIN commitLog : i < j =>
              /\ commitLog[i].order.order_id < commitLog[j].order.order_id
              /\ pc[commitLog[i].call] = "done"
              /\ pubOutcome[commitLog[i].call] # "none")
    /\ [][\A c \in Calls : (pubOutcome[c] = "none" /\ pubOutcome'[c] # "none") =>
              /\ mutex = c /\ mutex' = c
              /\ commitLog # <<>> /\ commitLog[Len(commitLog)].call = c
              /\ \A d \in Calls \ {c} : pubOutcome[d] # "none" => pc[d] = "done"]_vars

\* a call on another worker thread waits in lock() while the first call,
\* its order inserted and its event at the broker, is still inside the
\* publish
C33_Witness ==
    \E c, d \in Calls :
        /\ pc[c] = "await" /\ pubOutcome[c] = "sent" /\ mutex = c
        /\ CommitsOf(c) # {}
        /\ pc[d] = "lock" /\ thread[worker[d]] = d /\ worker[d] # worker[c]

\* ---------------------------------------------------------------------- C36
\* C36: with every published event delivered to the pump at most once, the
\* stock of every item is its initial stock less the quantities of the events
\* applied to it and lies between 0 and the initial stock; no step raises a
\* stock; and what was taken off an item never exceeds the quantities of the
\* orders inserted for it.
C36_StockAccounting ==
    /\ [](\A id \in CatalogItemIds :
              /\ items[id].stock = InitialStock(id) - AppliedSum(handled, id)
              /\ items[id].stock \in 0..InitialStock(id)
              /\ AppliedSum(handled, id) <= CommittedQty(CommitsFor(id)))
    /\ [](\A c \in Calls : EventCount(c) <= 1)
    /\ [][\A id \in CatalogItemIds : items'[id].stock <= items[id].stock]_vars
    /\ [][\A id \in CatalogItemIds :
              AppliedSum(handled', id) >= AppliedSum(handled, id)]_vars

\* 60 of item 1 and the one piece of item 5 were ordered, published and taken
\* off the stock
C36_Witness ==
    /\ Len(handled) = 2
    /\ AppliedSum(handled, 1) = 60 /\ AppliedSum(handled, 5) = 1
    /\ CommittedQty(CommitsFor(1)) = 60 /\ CommittedQty(CommitsFor(5)) = 1
    /\ items[1].stock = 40 /\ items[5].stock = 0

\* ---------------------------------------------------------------------- C38
\* C38: the step in which the callback handles an event keeps the set of
\* items, every item other than the one the event names, and the id and the
\* name of that one; the stock of the named item goes down by exactly the
\* event's quantity when the event is applied and stays as it is when the
\* event is rejected; an event that names no item of the store changes
\* nothing in it.
C38_OnlyNamedStockChanges ==
    [][handled' # handled =>
          LET id == Head(chan).event.payload.item_id
              quantity == Head(chan).event.payload.quantity
              outcome == handled'[Len(handled')].outcome
          IN  /\ DOMAIN items' = DOMAIN items
              /\ \A j \in DOMAIN items : j # id => items'[j] = items[j]
              /\ id \notin DOMAIN items => (outcome = "unknown" /\ items' = items)
              /\ id \in DOMAIN items =>
                    /\ items'[id].id = items[id].id
                    /\ items'[id].name = items[id].name
                    /\ outcome \in {"applied", "rejected"}
                    /\ outcome = "applied" =>
                          items'[id].stock + quantity = items[id].stock
                    /\ outcome = "rejected" => items'[id] = items[id]]_vars

\* an order of 60 was taken off item 1 and nothing else was touched
C38_Witness ==
    /\ \E i \in DOMAIN handled :
          /\ handled[i].outcome = "applied"
          /\ handled[i].payload = [item_id |-> 1, quantity |-> 60]
    /\ items[1] = [id |-> 1, name |-> InitialName(1), stock |-> 40]
    /\ \A j \in CatalogItemIds \ {1} :
          items[j] = [id |-> j, name |-> InitialName(j), stock |-> InitialStock(j)]

\* ---------------------------------------------------------------------- C40
\* C40: in the catalog store the next read of an id sees the last write to
\* it.  After add_item(item), get_item(item.id) is that item; after a write
\* to the stock through get_mut_item(id), get_item(id) is the item with the
\* new stock and its other fields as before, and for an id not in the store
\* the write does nothing; either operation leaves get_item of every other
\* id as it was; get_item of an id turns from none to some only by add_item
\* of that id, so an id never added reads none.
C40_ReadAfterWrite ==
    /\ [][\A item \in StoreItems : AddItem(item) =>
              /\ GetItem(items', item.id) = [some |-> TRUE, item |-> item]
              /\ \A j \in StoreIds \ {item.id} :
                    GetItem(items', j) = GetItem(items, j)]_vars
    /\ [][\A id \in StoreIds, stock \in StoreStocks : MutItem(id, stock) =>
              /\ GetItem(items, id).some =>
                    GetItem(items', id) =
                        [some |-> TRUE,
                         item |-> [id |-> items[id].id, name |-> items[id].name,
                                   stock |-> stock]]
              /\ ~GetItem(items, id).some => ~GetItem(items', id).some
              /\ \A j \in StoreIds \ {id} :
                    GetItem(items', j) = GetItem(items, j)]_vars
    /\ [][\A id \in StoreIds :
              (~GetItem(items, id).some /\ GetItem(items', id).some) =>
                  \E item \in StoreItems : item.id = id /\ AddItem(item)]_vars
    /\ [](\A id \in StoreIds :
              (id \notin CatalogItemIds /\ id \notin {item.id : item \in StoreItems})
                  => ~GetItem(items, id).some)
    /\ [](LET read == GetItem(items, storeCall.id)
          IN  /\ storeCall.op = "add_item" =>
                    read = [some |-> TRUE,
                            item |-> [id |-> storeCall.id, name |-> "Test Item",
                                      stock |-> storeCall.stock]]
              /\ storeCall.op = "get_mut_item" =>
                    /\ read.some = storeCall.found
                    /\ read.some => read.item.stock = storeCall.stock)

\* item 10 was added with a stock of 20, the stock of item 1 was set to 101
\* through get_mut_item, and id 100 is still unknown
C40_Witness ==
    /\ storeCall = [op |-> "get_mut_item", id |-> 1, stock |-> 101, found |-> TRUE]
    /\ GetItem(items, 10) =
          [some |-> TRUE, item |-> [id |-> 10, name |-> "Test Item", stock |-> 20]]
    /\ GetItem(items, 1).some
    /\ GetItem(items, 1).item.stock = 101
    /\ GetItem(items, 1).item.name = InitialName(1)
    /\ ~GetItem(items, 100).some

\* ---------------------------------------------------------------------- C31
\* C31: the guards of the store's RwLock keep reads and the decrement apart.
\* While the callback holds the write guard no request is inside the store
\* and none can enter; a request is inside exactly while it holds a read
\* guard, and the callback is at its test or its write exactly while it
\* holds the write guard; the write guard is granted only with no guard out;
\* from the test to the write the guard is not given up and the stock the
\* test saw is still the stock of the item, so the write is the test's stock
\* less the quantity.  Read guards do not exclude each other: with no write
\* guard held or waited for, a request can enter while others are inside.
C31_ReadsAndDecrementApart ==
    /\ [](rwWriter => rwReaders = {})
    /\ [](\A r \in Readers : rdPc[r] = "inside" <=> r \in rwReaders)
    /\ [](cbPc \in {"check", "write"} <=> rwWriter)
    /\ [](rwWriter => \A r \in Readers : ~ENABLED ReaderLock(r))
    /\ [](\A r \in Readers :
              (rdPc[r] = "lock" /\ rwReaders # {} /\ cbPc \notin {"lock", "check", "write"})
                  => ENABLED ReaderLock(r))
    /\ [][(~rwWriter /\ rwWriter') => (rwReaders = {} /\ rwReaders' = {})]_vars
    /\ [](cbPc = "write" =>
              LET id == cbEvent[1].event.payload.item_id
              IN  /\ rwWriter
                  /\ GetItem(items, id).some
                  /\ items[id].stock = stockAmount
                  /\ ~DecrementRejected(cbEvent[1].event.payload.quantity, items[id].stock))
    /\ [][cbPc = "write" =>
              \/ UNCHANGED <<items, rwWriter, rwReaders, cbPc, stockAmount, cbEvent>>
              \/ /\ cbPc' = "recv" /\ ~rwWriter'
                 /\ items' = [items EXCEPT ![cbEvent[1].event.payload.item_id].stock =
                                 stockAmount - cbEvent[1].event.payload.quantity]]_vars

\* every request is inside the store at once, one of them having entered
\* after a decrement was applied, while the callback waits in write() with
\* the next event
C31_Witness ==
    /\ rwReaders = Readers
    /\ cbPc = "lock" /\ ~rwWriter
    /\ ~ENABLED CallbackWriteLock
    /\ \E i \in DOMAIN handled : handled[i].outcome = "applied"
    /\ items[1].stock = 40

\* ---------------------------------------------------------------------- C32
\* call d, running on the worker thread of call c, is blocked in lock() on
\* the mutex that c holds while c is suspended in its publish: the thread
\* never polls c again, so c never returns and never releases the mutex
HolderStarved(c, d) ==
    /\ c # d
    /\ pc[c] = "await" /\ mutex = c
    /\ pc[d] = "lock" /\ worker[d] = worker[c]
    /\ thread[worker[c]] = d
    /\ ~ENABLED PlaceOrderReturn(c)
    /\ ~ENABLED Lock(d)

\* C32 as claimed: no execution reaches a state in which a call blocked on
\* the order store's mutex keeps the call that holds it, suspended in the
\* publish, from ever resuming, so that every place_order call can still
\* return.
C32_NoStarvedHolder ==
    \A c, d \in Calls : ~HolderStarved(c, d)

====
